---- MODULE Spec2Model ----
(***************************************************************************)
(* Model of the labctl package of opentofu-lab-automation (py/labctl).     *)
(*                                                                         *)
(* One labctl process runs one tool; the variable tool says which one a    *)
(* behaviour is about and every action is guarded by it:                   *)
(*   path_index       resolve_path / load_index / search_for_file          *)
(*   issue_parser     parse_issue_body                                     *)
(*   github_utils     cleanup_branches                                     *)
(*   pytest_failures  summarize_failures / report_failures / _main         *)
(*   pester_failures  summarize_failures / report_failures / _main         *)
(*   lint_failures    summarize_warnings / report_warnings / _main         *)
(*                                                                         *)
(* py/labctl/github_utils.py is shipped without its square brackets and is *)
(* not valid Python (line 41 reads "branches = ", line 47                  *)
(* "short_name = namelen(prefix):", line 55 "delete: Liststr = "): importing *)
(* it raises SyntaxError before any of its functions exists.  The model    *)
(* gives cleanup_branches that behaviour.  The three reporters call the    *)
(* name create_issue bound in their own module, which their tests replace; *)
(* the model takes create_issue as that interface: a call files the issue  *)
(* or raises.                                                              *)
(*                                                                         *)
(* Paths are sequences of path components relative to the repository root  *)
(* (<<"one", "a.txt">> is one/a.txt); a leading "/" component marks an     *)
(* absolute path.  Text is a sequence of one-character strings.            *)
(***************************************************************************)
EXTENDS Integers, Sequences, FiniteSets, TLC

VARIABLES
    tool,       \* which labctl component this behaviour exercises
    files,      \* path_index: regular files that exist under the repository root
    manifest,   \* path_index: <<root/path-index.yaml, root/configs/project/path-index.yaml>>
    yaml_ok,    \* path_index: TRUE iff "import yaml" succeeded (path_index.py:6-9)
    INDEX,      \* path_index: the module-level cache _INDEX (name -> repo-relative path)
    last,       \* path_index: the last resolve_path call and what it returned
    hist,       \* path_index: history variable following resolve / move / resolve
    body,       \* issue_parser: the issue body as written, a sequence of lines of BodyLines
    text,       \* issue_parser: the argument of parse_issue_body, the characters of body
    parsed,     \* issue_parser: what parse_issue_body(text) returned or raised
    refs,       \* github_utils: the remote-tracking refs git for-each-ref would list
    cleanup,    \* github_utils: what the call cleanup_branches() did and returned
    xml,        \* pytest/pester_failures: the result file, its cases and its document
    logs,       \* lint_failures: the lines written to the files of the log directory
    argv,       \* reporters: the parsed command line of _main (--summary, the path)
    environ,    \* reporters: RUN_URL, COMMIT_SHA, BRANCH_NAME, GITHUB_REPOSITORY of os.environ
    run,        \* reporters: where _main is, what it printed and the issues it filed
    call,       \* cli, create_issue, load_config: the invocation and what it meets outside
    outcome     \* cli, create_issue, load_config: what the invocation did and returned

pathVars == <<files, manifest, yaml_ok, INDEX, last, hist>>
parserVars == <<body, text, parsed>>
cleanupVars == <<refs, cleanup>>
reporterVars == <<xml, logs, argv, environ, run>>
callVars == <<call, outcome>>
vars == <<tool, pathVars, parserVars, cleanupVars, reporterVars, callVars>>

(***************************************************************************)
(* Generic helpers                                                         *)
(***************************************************************************)
Last(s) == s[Len(s)]

\* The empty Python dict, as a function with an empty domain.
EmptyDict == [k \in {} |-> <<>>]

\* Python's None where a path is expected; no file is called "None".
None == <<"None">>

\* No exception was raised.
NoExc == "none"

\* dict.get(key): the value, or None.
DictGet(d, k) == IF k \in DOMAIN d THEN d[k] ELSE None

\* An assignment that keeps the value of a key already present.
DictSet_KeepStale(d, k, v) ==
    IF k \in DOMAIN d THEN d ELSE [x \in (DOMAIN d) \cup {k} |-> IF x = k THEN v ELSE d[x]]

\* d[key] = value
DictSet(d, k, v) == [x \in (DOMAIN d) \cup {k} |-> IF x = k THEN v ELSE d[x]]

\* d.setdefault(key, value)
DictSetDefault(d, k, v) == IF k \in DOMAIN d THEN d ELSE DictSet(d, k, v)

(***************************************************************************)
(* path_index                                                              *)
(***************************************************************************)
\* Bounds of the path_index model
MaxFiles == 2

\* Code points order the characters of file names.
CodePointOrder ==
    <<"!", "*", "-", ".", "1", "?", "[", "]", "a", "b", "e", "g", "l", "n", "o", "t", "w", "x", "z">>

Ord(c) == CHOOSE i \in 1..Len(CodePointOrder) : CodePointOrder[i] = c

Dirs == {"one", "two"}
FileNames == {"a.txt", "a1.txt", "a[1].txt"}

\* Every place a regular file can be: at the root, or in one of the
\* directories (a1.txt, which the pattern a[1].txt matches, at the root only).
FilePaths ==
    {<<n>> : n \in FileNames} \cup {<<d, n>> : d \in Dirs, n \in FileNames \ {"a1.txt"}}

\* The directories exist throughout (the test creates them before moving).
DirPaths == {<<d>> : d \in Dirs}

\* Names handed to resolve_path: bare file names, one of them with two
\* asterisks in a row, the empty name, a repo-relative path (as
\* labctl/ui.py:65-77 passes) and an absolute path.
LookupNames ==
    {<<"a.txt">>, <<"a1.txt">>, <<"a[1].txt">>, <<"a**">>, <<"">>, <<"one", "a.txt">>,
     <<"/", "a.txt">>}

\* The characters of a path component.
Spell(n) ==
    CASE n = "a.txt" -> <<"a", ".", "t", "x", "t">>
      [] n = "a1.txt" -> <<"a", "1", ".", "t", "x", "t">>
      [] n = "a[1].txt" -> <<"a", "[", "1", "]", ".", "t", "x", "t">>
      [] n = "a**" -> <<"a", "*", "*">>
      [] n = "**" -> <<"*", "*">>
      [] n = "" -> <<>>
      [] n = "one" -> <<"o", "n", "e">>
      [] n = "two" -> <<"t", "w", "o">>
      [] n = "/" -> <<"/">>

IsAbsolute(name) == Len(name) > 0 /\ name[1] = "/"

\* Path(key).name
Basename(key) == <<Last(key)>>

\* (repo_root() / rel).exists(): a regular file or a directory under the root.
\* An absolute rel replaces the root; nothing of the model lives outside the root.
Exists(fs, rel) == rel \in fs \/ rel \in DirPaths \/ rel = <<>>

\* Manifests that may be on disk: none, an empty file, or a mapping written by
\* scripts/update_index.py (every key maps to itself), in file order.
Absent == [exists |-> FALSE, data |-> <<>>]
Manifests ==
    { Absent,
      [exists |-> TRUE, data |-> <<>>],
      [exists |-> TRUE, data |-> << <<<<"one", "a.txt">>, <<"one", "a.txt">>>> >>],
      [exists |-> TRUE, data |-> << <<<<"one", "a[1].txt">>, <<"one", "a[1].txt">>>> >>],
      [exists |-> TRUE, data |-> << <<<<"two", "a.txt">>, <<"two", "a.txt">>>>,
                                    <<<<"one", "a.txt">>, <<"one", "a.txt">>>> >>] }

\* _INDEX = dict(data)
RECURSIVE DictOf(_)
DictOf(data) ==
    IF data = <<>> THEN EmptyDict
    ELSE DictSet(DictOf(SubSeq(data, 1, Len(data) - 1)), data[Len(data)][1], data[Len(data)][2])

\* for key, val in data.items(): _INDEX.setdefault(Path(key).name, val)
RECURSIVE WithBasenames(_, _, _)
WithBasenames(d, data, i) ==
    IF i > Len(data) THEN d
    ELSE WithBasenames(DictSetDefault(d, Basename(data[i][1]), data[i][2]), data, i + 1)

FromManifest(data) == WithBasenames(DictOf(data), data, 1)

\* A load_index that reads the manifest on every call.
load_index_Always(index, mf, yaml) ==
    IF mf[1].exists /\ yaml THEN FromManifest(mf[1].data)
    ELSE IF mf[2].exists /\ yaml THEN FromManifest(mf[2].data)
    ELSE index

\* load_index(): reloads only while the cache is empty; the first candidate
\* that exists is loaded (yaml permitting), otherwise the cache stays empty.
load_index(index, mf, yaml) ==
    IF index # EmptyDict THEN index
    ELSE IF mf[1].exists /\ yaml THEN FromManifest(mf[1].data)
    ELSE IF mf[2].exists /\ yaml THEN FromManifest(mf[2].data)
    ELSE EmptyDict

\* fnmatch.translate: the index of the "]" that closes the bracket opened at
\* pat[i], 0 when there is none and the "[" stands for itself.  A "!" after
\* the "[", and a "]" right after that, do not close.
ClosingBracket(pat, i) ==
    LET j1 == IF i + 1 =< Len(pat) /\ pat[i + 1] = "!" THEN i + 2 ELSE i + 1
        j2 == IF j1 =< Len(pat) /\ pat[j1] = "]" THEN j1 + 1 ELSE j1
        js == {j \in j2..Len(pat) : pat[j] = "]"}
    IN  IF js = {} THEN 0 ELSE CHOOSE j \in js : \A k \in js : j =< k

\* fnmatch.translate: the chunks of a bracket's text, cut at the hyphens
\* that make ranges.  The chunk being read starts at i and the next hyphen
\* is looked for from k on: from the second character, from the third after
\* a leading "!", and from the third after a hyphen found.  A hyphen that
\* ends the text stays in the last chunk.
RECURSIVE BracketChunks(_, _, _)
BracketChunks(stuff, i, k) ==
    LET ks == {m \in k..(Len(stuff) - 1) : stuff[m] = "-"} IN
    IF ks = {} THEN <<SubSeq(stuff, i, Len(stuff))>>
    ELSE LET m == CHOOSE m \in ks : \A n \in ks : m =< n
         IN  <<SubSeq(stuff, i, m - 1)>> \o BracketChunks(stuff, m + 1, m + 3)

\* fnmatch.translate, "Remove empty ranges": from the right, a range x-y
\* with x > y is dropped, its two ends with it, and the chunks on its two
\* sides become one.
RECURSIVE RemoveEmptyRanges(_)
RemoveEmptyRanges(chunks) ==
    IF Len(chunks) =< 1 THEN chunks
    ELSE LET rest == RemoveEmptyRanges(Tail(chunks))
             c1 == chunks[1]
         IN  IF Ord(c1[Len(c1)]) > Ord(rest[1][1])
             THEN <<SubSeq(c1, 1, Len(c1) - 1) \o Tail(rest[1])>> \o Tail(rest)
             ELSE <<c1>> \o rest

\* c is in the set the chunks spell when joined by "-": a character of a
\* chunk, or one in the range from the end of a chunk to the start of the
\* next.
InBracket(c, chunks) ==
    \/ \E k \in 1..Len(chunks) : \E m \in 1..Len(chunks[k]) : chunks[k][m] = c
    \/ \E k \in 1..(Len(chunks) - 1) :
          /\ Ord(chunks[k][Len(chunks[k])]) =< Ord(c)
          /\ Ord(c) =< Ord(chunks[k + 1][1])

\* re.compile(fnmatch.translate(pat)).fullmatch(s): "*" is any run of
\* characters, "?" any one character, "[seq]" one character of seq; nothing
\* quotes a metacharacter.  What a bracket spells is decided on its text
\* after the empty ranges are removed: nothing left matches no character, a
\* lone "!" matches any character, a leading "!" negates the rest (a hyphen
\* right after it then stands for itself), anything else is the set.
RECURSIVE fnmatch(_, _)
fnmatch(s, pat) ==
    IF pat = <<>> THEN s = <<>>
    ELSE IF pat[1] = "*"
    THEN \E k \in 0..Len(s) : fnmatch(SubSeq(s, k + 1, Len(s)), Tail(pat))
    ELSE IF s = <<>> THEN FALSE
    ELSE IF pat[1] = "?" THEN fnmatch(Tail(s), Tail(pat))
    ELSE IF pat[1] = "[" /\ ClosingBracket(pat, 1) # 0
    THEN LET j == ClosingBracket(pat, 1)
             stuff == SubSeq(pat, 2, j - 1)
             chunks == RemoveEmptyRanges(
                           BracketChunks(stuff, 1, IF stuff[1] = "!" THEN 3 ELSE 2))
         IN  /\ IF chunks[1] = <<>> THEN FALSE
                ELSE IF chunks[1][1] # "!" THEN InBracket(s[1], chunks)
                ELSE IF Len(chunks[1]) > 1
                THEN ~InBracket(s[1], <<Tail(chunks[1])>> \o Tail(chunks))
                ELSE IF Len(chunks) = 1 THEN TRUE
                ELSE ~(s[1] = "-" \/ InBracket(s[1], Tail(chunks)))
             /\ fnmatch(Tail(s), SubSeq(pat, j + 1, Len(pat)))
    ELSE pat[1] = s[1] /\ fnmatch(Tail(s), Tail(pat))

\* What root.rglob(name) raises when it is iterated: NotImplementedError for
\* an absolute name, ValueError for a component that holds "**" and more.
\* An empty name raises nothing (Path.glob rejects an empty pattern, rglob
\* does not).
SearchError(name) ==
    IF IsAbsolute(name) THEN "NotImplementedError"
    ELSE IF \E i \in 1..Len(name) :
               LET pat == Spell(name[i]) IN
               /\ pat # <<"*", "*">>
               /\ \E k \in 1..(Len(pat) - 1) : pat[k] = "*" /\ pat[k + 1] = "*"
    THEN "ValueError"
    ELSE NoExc

SearchRaises(name) == SearchError(name) # NoExc

\* root.rglob(name) for a bare name: the entries, files and directories, of
\* the root and of every directory below it that the name selects.  A name
\* with "*", "?" or "[" is a pattern matched against each entry's name, any
\* other name is looked up as it is; an empty name and "**" select the
\* directories themselves.
rglob(fs, name) ==
    LET pat == Spell(name[1]) IN
    IF pat \in {<<>>, <<"*", "*">>} THEN DirPaths \cup {<<>>}
    ELSE IF \E k \in 1..Len(pat) : pat[k] \in {"*", "?", "["}
    THEN {p \in fs \cup DirPaths : fnmatch(Spell(Last(p)), pat)}
    ELSE {p \in fs \cup DirPaths : Last(p) = name[1]}

\* A search that looks at the root directory only.
search_for_file_RootOnly(fs, name) == IF Len(name) = 1 /\ name \in fs THEN {name} ELSE {None}

\* search_for_file(name): the set of results the directory scan can produce.
\* rglob(name) visits the root before its subdirectories, and the
\* subdirectories in the order os.scandir lists them, which the file system
\* decides; of what it yields only regular files whose final component
\* equals name are taken.  A name of several components never equals a final
\* component.
search_for_file(fs, name) ==
    IF Len(name) # 1 THEN {None}
    ELSE LET hits == {p \in rglob(fs, name) : p \in fs /\ Basename(p) = name} IN
         IF name \in hits THEN {name}
         ELSE IF hits # {} THEN hits
         ELSE {None}

\* The cache check without its abs_path.exists() test.
CacheHit_NoExistsCheck(index, fs, name) ==
    /\ DictGet(index, name) # None
    /\ DictGet(index, name) # <<>>

\* TRUE iff the cache answers the call: the entry is non-empty and its target exists.
CacheHit(index, fs, name) ==
    /\ DictGet(index, name) # None
    /\ DictGet(index, name) # <<>>
    /\ Exists(fs, DictGet(index, name))

\* A resolve_path that drops the entry of a name the search does not find.
resolve_path_ForgetsOnMiss(index0, fs, mf, yaml, name) ==
    LET index == load_index(index0, mf, yaml) IN
    IF CacheHit(index, fs, name)
    THEN {[ret |-> index[name], exc |-> NoExc, index |-> index]}
    ELSE IF SearchRaises(name)
    THEN {[ret |-> None, exc |-> SearchError(name), index |-> index]}
    ELSE {[ret |-> found, exc |-> NoExc,
           index |-> IF found # None THEN DictSet(index, name, found)
                     ELSE [k \in (DOMAIN index) \ {name} |-> index[k]]]
          : found \in search_for_file(fs, name)}

\* resolve_path(name): the set of outcomes [ret, exc, index] of one call.
resolve_path(index0, fs, mf, yaml, name) ==
    LET index == load_index(index0, mf, yaml) IN
    IF CacheHit(index, fs, name)
    THEN {[ret |-> index[name], exc |-> NoExc, index |-> index]}
    ELSE IF SearchRaises(name)
    THEN {[ret |-> None, exc |-> SearchError(name), index |-> index]}
    ELSE {[ret |-> found, exc |-> NoExc,
           index |-> IF found # None THEN DictSet(index, name, found) ELSE index]
          : found \in search_for_file(fs, name)}

NoCall ==
    [name |-> None, ret |-> None, exc |-> NoExc, cached |-> FALSE, found |-> FALSE,
     manifest |-> <<Absent, Absent>>]
NoHist == [stage |-> "idle"]

\* The variables of a tool that this behaviour does not run.
IdlePathIndex ==
    /\ files = {}
    /\ manifest = <<Absent, Absent>>
    /\ yaml_ok = TRUE
    /\ INDEX = EmptyDict
    /\ last = NoCall
    /\ hist = NoHist

IdleParser == body = <<>> /\ text = <<>> /\ parsed = [done |-> FALSE]

IdleCleanup == refs = <<>> /\ cleanup = [done |-> FALSE]

\* No result file was read and no variable of the environment is set.
NoResultFile == [cases |-> <<>>, nested |-> FALSE, doc |-> <<>>]
NoEnviron == [RUN_URL |-> None, COMMIT_SHA |-> None, BRANCH_NAME |-> None, GITHUB_REPOSITORY |-> None]

\* _main has not started: nothing printed, no summary computed, no
\* create_issue call attempted, no issue filed.
NotStarted ==
    [pc |-> "start", summary |-> None, stdout |-> None, pending |-> <<>>, attempts |-> <<>>,
     issues |-> <<>>, calls |-> 0, exc |-> NoExc]

IdleReporter ==
    /\ xml = NoResultFile
    /\ logs = <<>>
    /\ argv = [summary |-> FALSE, path |-> <<>>]
    /\ environ = NoEnviron
    /\ run = [NotStarted EXCEPT !.pc = "idle"]

IdleCalls == call = [made |-> FALSE] /\ outcome = [done |-> FALSE]


InitPathIndex ==
    /\ tool = "path_index"
    /\ files = {}
    /\ manifest \in {mf \in Manifests \X Manifests : mf[1] = Absent \/ mf[2] = Absent}
    /\ yaml_ok \in BOOLEAN
    /\ INDEX = EmptyDict
    /\ last = NoCall
    /\ hist = NoHist
    /\ IdleParser
    /\ IdleCleanup
    /\ IdleReporter
    /\ IdleCalls

\* A regular file is created under the root.
CreateFile(p) ==
    /\ tool = "path_index"
    /\ p \notin files
    /\ Cardinality(files) < MaxFiles
    /\ files' = files \cup {p}
    /\ hist' = NoHist
    /\ UNCHANGED <<tool, manifest, yaml_ok, INDEX, last, parserVars, cleanupVars, reporterVars, callVars>>

\* A regular file is deleted.
DeleteFile(p) ==
    /\ tool = "path_index"
    /\ p \in files
    /\ files' = files \ {p}
    /\ hist' = NoHist
    /\ UNCHANGED <<tool, manifest, yaml_ok, INDEX, last, parserVars, cleanupVars, reporterVars, callVars>>

\* file.rename(new_dir / file.name): a file moves to another directory.
MoveFile(p, q) ==
    /\ tool = "path_index"
    /\ p \in files
    /\ q \in FilePaths \ files
    /\ Basename(p) = Basename(q)
    /\ files' = (files \ {p}) \cup {q}
    /\ hist' = IF hist.stage = "resolved" /\ hist.a = p
               THEN [stage |-> "moved", name |-> hist.name, a |-> p, b |-> q]
               ELSE NoHist
    /\ UNCHANGED <<tool, manifest, yaml_ok, INDEX, last, parserVars, cleanupVars, reporterVars, callVars>>

\* One call resolve_path(name).
ResolvePath(name) ==
    /\ tool \in {"path_index", "load_index"}
    /\ \E out \in resolve_path(INDEX, files, manifest, yaml_ok, name) :
         /\ INDEX' = out.index
         /\ last' = [name |-> name, ret |-> out.ret, exc |-> out.exc,
                     cached |-> CacheHit(load_index(INDEX, manifest, yaml_ok), files, name),
                     found |-> /\ ~SearchRaises(name)
                               /\ search_for_file(files, name) # {None},
                     manifest |-> manifest]
         /\ hist' = IF hist.stage = "moved" /\ hist.name = name
                    THEN [stage |-> "healed", name |-> name, a |-> hist.a, b |-> hist.b,
                          ret |-> out.ret, exc |-> out.exc]
                    ELSE IF out.ret \in files
                    THEN [stage |-> "resolved", name |-> name, a |-> out.ret]
                    ELSE NoHist
    /\ UNCHANGED <<tool, files, manifest, yaml_ok, parserVars, cleanupVars, reporterVars, callVars>>

\* One call load_index() on its own: only the cache can change.
LoadIndex ==
    /\ tool \in {"path_index", "load_index"}
    /\ INDEX' = load_index(INDEX, manifest, yaml_ok)
    /\ UNCHANGED <<tool, files, manifest, yaml_ok, last, hist, parserVars, cleanupVars, reporterVars, callVars>>

NextPathIndex ==
    \/ \E p \in FilePaths : CreateFile(p)
    \/ \E p \in FilePaths : DeleteFile(p)
    \/ \E p \in FilePaths, q \in FilePaths : MoveFile(p, q)
    \/ \E name \in LookupNames : ResolvePath(name)
    \/ LoadIndex

SpecPathIndex == InitPathIndex /\ [][NextPathIndex]_vars

\* The manifests change on disk while the process runs: either file may be
\* present at the start, and scripts/update_index.py (or an edit, or a
\* deletion) replaces one at any time.  The files under the root stay as
\* they are: none, or one in a directory.
InitManifest ==
    /\ tool = "load_index"
    /\ files \in {{}} \cup {{p} : p \in {q \in FilePaths : Len(q) = 2}}
    /\ manifest \in Manifests \X Manifests
    /\ yaml_ok \in BOOLEAN
    /\ INDEX = EmptyDict
    /\ last = NoCall
    /\ hist = NoHist
    /\ IdleParser
    /\ IdleCleanup
    /\ IdleReporter
    /\ IdleCalls

\* <root>/path-index.yaml (i = 1) or <root>/configs/project/path-index.yaml
\* (i = 2) is written, rewritten or removed.
WriteManifest(i, mf) ==
    /\ tool = "load_index"
    /\ mf # manifest[i]
    /\ manifest' = [manifest EXCEPT ![i] = mf]
    /\ hist' = NoHist
    /\ UNCHANGED <<tool, files, yaml_ok, INDEX, last, parserVars, cleanupVars, reporterVars, callVars>>

NextManifest ==
    \/ \E i \in 1..2, mf \in Manifests : WriteManifest(i, mf)
    \/ \E name \in LookupNames : ResolvePath(name)
    \/ LoadIndex

SpecManifest == InitManifest /\ [][NextManifest]_vars

(***************************************************************************)
(* Text: Python str operations on sequences of one-character strings       *)
(***************************************************************************)
\* str.strip() and str.isspace(): the whitespace of the model's alphabet.
Whitespace == {" ", "\t", "\n", "\r", "\f"}

\* str.splitlines(): the line boundaries of the model's alphabet (\r\n is one).
LineBreaks == {"\n", "\r", "\f"}

RECURSIVE LStrip(_)
LStrip(s) == IF s # <<>> /\ s[1] \in Whitespace THEN LStrip(Tail(s)) ELSE s

RECURSIVE RStrip(_)
RStrip(s) ==
    IF s # <<>> /\ s[Len(s)] \in Whitespace THEN RStrip(SubSeq(s, 1, Len(s) - 1)) ELSE s

\* s.strip()
Strip(s) == RStrip(LStrip(s))

\* Index of the first line boundary of s at or after i, Len(s) + 1 if none.
RECURSIVE NextBreak(_, _)
NextBreak(s, i) ==
    IF i > Len(s) \/ s[i] \in LineBreaks THEN i ELSE NextBreak(s, i + 1)

\* s.splitlines(): no line for the empty tail after a final boundary.
RECURSIVE SplitFrom(_, _)
SplitFrom(s, i) ==
    IF i > Len(s) THEN <<>>
    ELSE LET j == NextBreak(s, i)
             k == IF j < Len(s) /\ s[j] = "\r" /\ s[j + 1] = "\n" THEN j + 2 ELSE j + 1
         IN  <<SubSeq(s, i, j - 1)>> \o SplitFrom(s, k)

splitlines(s) == SplitFrom(s, 1)

\* s.startswith(prefix) from position i
HasPrefixAt(s, i, prefix) ==
    /\ i + Len(prefix) - 1 =< Len(s)
    /\ SubSeq(s, i, i + Len(prefix) - 1) = prefix

startswith(s, prefix) == HasPrefixAt(s, 1, prefix)

(***************************************************************************)
(* Regular expressions of issue_parser.py                                  *)
(*                                                                         *)
(* A pattern is a sequence of literals and of one-or-more repetitions of a *)
(* character class, some of them named groups.  In both patterns every     *)
(* repetition is followed by a literal whose first character is outside    *)
(* the class, or ends the pattern, so the greedy match is the only match   *)
(* from a given start and no backtracking is needed.                       *)
(***************************************************************************)
\* The backtick character U+0060, which a TLA+ string cannot contain.
Backtick == "<backtick>"

Lit(chars) == [kind |-> "lit", s |-> chars, cls |-> "", grp |-> ""]
Plus(class, group) == [kind |-> "plus", s |-> <<>>, cls |-> class, grp |-> group]

HexDigits ==
    {"0", "1", "2", "3", "4", "5", "6", "7", "8", "9",
     "a", "b", "c", "d", "e", "f", "A", "B", "C", "D", "E", "F"}

InClass(c, class) ==
    CASE class = "not]" -> c # "]"
      [] class = "not)" -> c # ")"
      [] class = "nottick" -> c # Backtick
      [] class = "hex"  -> c \in HexDigits
      [] class = "dot"  -> c # "\n"

\* Index after the longest run of class characters of s starting at i.
RECURSIVE RunEnd(_, _, _)
RunEnd(s, i, class) ==
    IF i =< Len(s) /\ InClass(s[i], class) THEN RunEnd(s, i + 1, class) ELSE i

NoMatch == [ok |-> FALSE, groups |-> EmptyDict]

\* Match elements k.. of pat against s from position i.
RECURSIVE MatchFrom(_, _, _, _, _)
MatchFrom(pat, k, s, i, groups) ==
    IF k > Len(pat) THEN [ok |-> TRUE, groups |-> groups]
    ELSE IF pat[k].kind = "lit"
    THEN IF HasPrefixAt(s, i, pat[k].s)
         THEN MatchFrom(pat, k + 1, s, i + Len(pat[k].s), groups)
         ELSE NoMatch
    ELSE LET j == RunEnd(s, i, pat[k].cls) IN
         IF j = i THEN NoMatch
         ELSE MatchFrom(pat, k + 1, s, j,
                        IF pat[k].grp = "" THEN groups
                        ELSE DictSet(groups, pat[k].grp, SubSeq(s, i, j - 1)))

\* re.search(pat, s): the match at the leftmost start that has one.
RECURSIVE SearchFrom(_, _, _)
SearchFrom(pat, s, i) ==
    IF i > Len(s) THEN NoMatch
    ELSE LET m == MatchFrom(pat, 1, s, i, EmptyDict) IN
         IF m.ok THEN m ELSE SearchFrom(pat, s, i + 1)

re_search(pat, s) == SearchFrom(pat, s, 1)

\* r"Run \[(?P<url>[^\]]+)\]\([^\)]+\) for commit B(?P<sha>[0-9a-fA-F]+)B on branch B(?P<branch>[^B]+)B"
\* where B stands for the backtick.
RunPattern ==
    << Lit(<<"R", "u", "n", " ", "[">>), Plus("not]", "url"),
       Lit(<<"]", "(">>), Plus("not)", ""),
       Lit(<<")", " ", "f", "o", "r", " ", "c", "o", "m", "m", "i", "t", " ", Backtick>>),
       Plus("hex", "sha"),
       Lit(<<Backtick, " ", "o", "n", " ", "b", "r", "a", "n", "c", "h", " ", Backtick>>),
       Plus("nottick", "branch"),
       Lit(<<Backtick>>) >>

\* r"- \[(?P<name>[^\]]+)\]\((?P<url>[^)]+)\) - (?P<status>.+)"
JobPattern ==
    << Lit(<<"-", " ", "[">>), Plus("not]", "name"),
       Lit(<<"]", "(">>), Plus("not)", "url"),
       Lit(<<")", " ", "-", " ">>), Plus("dot", "status") >>

(***************************************************************************)
(* issue_parser                                                            *)
(***************************************************************************)

\* The exception a subscript [0] of an empty list raises, where a line is expected.
IndexError == <<"IndexError">>

\* lines[0]
Index0(lines) == IF lines = <<>> THEN IndexError ELSE lines[1]

\* first_line taken from the unstripped text.
first_line_NoStrip(t) == IF Strip(t) # <<>> THEN Index0(splitlines(t)) ELSE <<>>

\* first_line without the guard for an empty stripped text.
first_line_Unguarded(t) == Index0(splitlines(Strip(t)))

\* first_line = text.strip().splitlines()[0] if text.strip() else ""
first_line(t) == IF Strip(t) # <<>> THEN Index0(splitlines(Strip(t))) ELSE <<>>

\* A section split in which a repeated heading goes on with the lines
\* collected under its earlier occurrence.
RECURSIVE SectionsFrom_KeepsEarlier(_, _, _, _)
SectionsFrom_KeepsEarlier(lines, i, current, sections) ==
    IF i > Len(lines) THEN sections
    ELSE IF startswith(lines[i], <<"#", "#", "#", " ">>)
    THEN LET name == Strip(SubSeq(lines[i], 5, Len(lines[i]))) IN
         SectionsFrom_KeepsEarlier(lines, i + 1, name, DictSetDefault(sections, name, <<>>))
    ELSE IF current # None /\ current # <<>>
    THEN SectionsFrom_KeepsEarlier(lines, i + 1, current,
                      DictSet(sections, current, Append(sections[current], lines[i])))
    ELSE SectionsFrom_KeepsEarlier(lines, i + 1, current, sections)

\* The loop over text.splitlines() that splits the text at "### " headings:
\* a heading opens (or re-opens, emptied) its section, any other line is
\* appended to the current section if its name is non-empty.
RECURSIVE SectionsFrom(_, _, _, _)
SectionsFrom(lines, i, current, sections) ==
    IF i > Len(lines) THEN sections
    ELSE IF startswith(lines[i], <<"#", "#", "#", " ">>)
    THEN LET name == Strip(SubSeq(lines[i], 5, Len(lines[i]))) IN
         SectionsFrom(lines, i + 1, name, DictSet(sections, name, <<>>))
    ELSE IF current # None /\ current # <<>>
    THEN SectionsFrom(lines, i + 1, current,
                      DictSet(sections, current, Append(sections[current], lines[i])))
    ELSE SectionsFrom(lines, i + 1, current, sections)

Sections(t) == SectionsFrom(splitlines(t), 1, None, EmptyDict)

\* sections.get(name, [])
SectionLines(sections, name) == IF name \in DOMAIN sections THEN sections[name] ELSE <<>>

\* The loop over the "Failed jobs" section: one record per line the job pattern matches.
RECURSIVE JobsFrom(_, _)
JobsFrom(lines, i) ==
    IF i > Len(lines) THEN <<>>
    ELSE LET m == re_search(JobPattern, lines[i]) IN
         (IF m.ok
          THEN <<[name |-> m.groups["name"], url |-> m.groups["url"],
                  status |-> m.groups["status"]]>>
          ELSE <<>>) \o JobsFrom(lines, i + 1)

\* A filter that keeps every line.
NonBlank_KeepsBlank(lines) == lines

\* [line for line in lines if line.strip()]
RECURSIVE NonBlank(_)
NonBlank(lines) ==
    IF lines = <<>> THEN <<>>
    ELSE (IF Strip(lines[1]) # <<>> THEN <<lines[1]>> ELSE <<>>) \o NonBlank(Tail(lines))

\* A parser that takes the url from the link alone, whatever follows it.
parse_issue_body_UrlAlone(t) ==
    LET fl == first_line(t) IN
    IF fl = IndexError THEN [exc |-> "IndexError", value |-> EmptyDict]
    ELSE
    LET m == re_search(RunPattern, fl)
        u == re_search(<<Lit(<<"R", "u", "n", " ", "[">>), Plus("not]", "url"), Lit(<<"]">>)>>, fl)
        sections == Sections(t)
    IN  [exc |-> NoExc,
         value |-> [run_url |-> IF u.ok THEN u.groups["url"] ELSE None,
                    commit |-> IF m.ok THEN m.groups["sha"] ELSE None,
                    branch |-> IF m.ok THEN m.groups["branch"] ELSE None,
                    jobs |-> JobsFrom(SectionLines(sections, <<"F", "a", "i", "l", "e", "d", " ", "j", "o", "b", "s">>), 1),
                    tests |-> NonBlank(SectionLines(sections, <<"F", "a", "i", "l", "i", "n", "g", " ", "t", "e", "s", "t", "s">>))]]

\* parse_issue_body(text): [exc, value]; value is the returned dict.
parse_issue_body(t) ==
    LET fl == first_line(t) IN
    IF fl = IndexError THEN [exc |-> "IndexError", value |-> EmptyDict]
    ELSE
    LET m == re_search(RunPattern, fl)
        sections == Sections(t)
    IN  [exc |-> NoExc,
         value |-> [run_url |-> IF m.ok THEN m.groups["url"] ELSE None,
                    commit |-> IF m.ok THEN m.groups["sha"] ELSE None,
                    branch |-> IF m.ok THEN m.groups["branch"] ELSE None,
                    jobs |-> JobsFrom(SectionLines(sections, <<"F", "a", "i", "l", "e", "d", " ", "j", "o", "b", "s">>), 1),
                    tests |-> NonBlank(SectionLines(sections, <<"F", "a", "i", "l", "i", "n", "g", " ", "t", "e", "s", "t", "s">>))]]

\* Bound of the issue_parser model: lines of an issue body.
MaxLines == 3

\* The lines issue bodies are written from.  kind says what the line is by
\* construction: "run" lines carry the run metadata url/sha/branch of the
\* producer format, "junk" lines resemble it without satisfying it.
BodyLines ==
    << [kind |-> "run", url |-> <<"u">>, sha |-> <<"a", "1">>, branch |-> <<"m">>,
        chars |-> <<"R", "u", "n", " ", "[", "u", "]", "(", "v", ")", " ", "f", "o", "r", " ",
                    "c", "o", "m", "m", "i", "t", " ", Backtick, "a", "1", Backtick, " ", "o", "n", " ",
                    "b", "r", "a", "n", "c", "h", " ", Backtick, "m", Backtick, " ", "f", "a", "i", "l",
                    "e", "d", ".">>],
       [kind |-> "run", url |-> <<"w">>, sha |-> <<"F", "0">>, branch |-> <<"x">>,
        chars |-> <<"s", "e", "e", " ", "R", "u", "n", " ", "[", "w", "]", "(", "v", ")", " ",
                    "f", "o", "r", " ", "c", "o", "m", "m", "i", "t", " ", Backtick, "F", "0", Backtick,
                    " ", "o", "n", " ", "b", "r", "a", "n", "c", "h", " ", Backtick, "x", Backtick>>],
       [kind |-> "junk", url |-> <<>>, sha |-> <<>>, branch |-> <<>>,
        chars |-> <<"R", "u", "n", " ", "[", "u", "]", "(", "v", ")", " ", "f", "o", "r", " ",
                    "c", "o", "m", "m", "i", "t", " ", Backtick, "z", "z", Backtick, " ", "o", "n", " ",
                    "b", "r", "a", "n", "c", "h", " ", Backtick, "m", Backtick>>],
       [kind |-> "blank", url |-> <<>>, sha |-> <<>>, branch |-> <<>>, chars |-> <<>>],
       [kind |-> "blank", url |-> <<>>, sha |-> <<>>, branch |-> <<>>, chars |-> <<" ">>],
       [kind |-> "heading", section |-> "jobs", url |-> <<>>, sha |-> <<>>, branch |-> <<>>,
        chars |-> <<"#", "#", "#", " ", "F", "a", "i", "l", "e", "d", " ", "j", "o", "b", "s">>],
       [kind |-> "heading", section |-> "tests", url |-> <<>>, sha |-> <<>>, branch |-> <<>>,
        chars |-> <<"#", "#", "#", " ", "F", "a", "i", "l", "i", "n", "g", " ", "t", "e", "s",
                    "t", "s">>],
       [kind |-> "job", url |-> <<>>, sha |-> <<>>, branch |-> <<>>,
        job |-> [name |-> <<"L", "i", "n", "t">>, url |-> <<"j">>,
                 status |-> <<"f", "a", "i", "l", "u", "r", "e">>],
        chars |-> <<"-", " ", "[", "L", "i", "n", "t", "]", "(", "j", ")", " ", "-", " ", "f",
                    "a", "i", "l", "u", "r", "e">>],
       [kind |-> "test", url |-> <<>>, sha |-> <<>>, branch |-> <<>>,
        chars |-> <<"-", " ", "*", "*", "t", "*", "*", ":", " ", "o", "o", "p", "s">>],
       [kind |-> "heading", section |-> "other", url |-> <<>>, sha |-> <<>>, branch |-> <<>>,
        chars |-> <<"#", "#", "#", " ", "L", "o", "g", "s">>],
       [kind |-> "junk", url |-> <<>>, sha |-> <<>>, branch |-> <<>>,
        chars |-> <<"R", "u", "n", " ", "[", "u", "]", "(", "v", ")", " ", "f", "o", "r", " ",
                    "c", "o", "m", "m", "i", "t", " ", Backtick, "a", "1", Backtick, " ", "o", "n", " ",
                    "b", "r", "a", "n", "c", "h", " ", Backtick, Backtick>>] >>

\* The bodies: up to MaxLines lines, each ended by a newline as the workflow writes them.
Bodies == UNION {[1..n -> 1..Len(BodyLines)] : n \in 0..MaxLines}

\* The text of a body: its lines, each followed by "\n".
RECURSIVE Render(_)
Render(b) == IF b = <<>> THEN <<>> ELSE BodyLines[b[1]].chars \o <<"\n">> \o Render(Tail(b))

InitIssueParser ==
    /\ tool = "issue_parser"
    /\ body \in Bodies
    /\ text = Render(body)
    /\ parsed = [done |-> FALSE]
    /\ IdlePathIndex
    /\ IdleCleanup
    /\ IdleReporter
    /\ IdleCalls

\* One call parse_issue_body(text).
ParseIssueBody ==
    /\ tool = "issue_parser"
    /\ ~parsed.done
    /\ parsed' = [done |-> TRUE, out |-> parse_issue_body(text)]
    /\ UNCHANGED <<tool, body, text, pathVars, cleanupVars, reporterVars, callVars>>

NextIssueParser == ParseIssueBody

SpecIssueParser == InitIssueParser /\ [][NextIssueParser]_vars

(***************************************************************************)
(* github_utils                                                            *)
(***************************************************************************)
\* Bound of the github_utils model: refs under refs/remotes/<remote>.
MaxRefs == 3

\* Short names of the refs under refs/remotes/origin/ and the commit times
\* (hour, minute of one day) git reports for them.
RefNames == {"HEAD", "main", "feat1", "feat2"}
CommitTimes == {<<1, 0>>, <<1, 30>>, <<2, 15>>}

\* One line of the for-each-ref listing: commit time and short ref name.
RefLines == [time : CommitTimes, name : RefNames]

\* The listings: up to MaxRefs lines, no ref twice.
Listings ==
    {l \in UNION {[1..n -> RefLines] : n \in 0..MaxRefs} :
        \A i \in 1..Len(l), j \in 1..Len(l) : i # j => l[i].name # l[j].name}

\* What "import labctl.github_utils" does: the file does not compile.
github_utils_import == "SyntaxError"

\* cleanup_branches(remote): the module that defines it cannot be imported,
\* so a call ends in the import's exception with no command run and nothing
\* returned.
cleanup_branches(remote, listing) ==
    [done |-> TRUE, exc |-> github_utils_import, commands |-> <<>>, ret |-> <<>>]

InitCleanup ==
    /\ tool = "github_utils"
    /\ refs \in Listings
    /\ cleanup = [done |-> FALSE]
    /\ IdlePathIndex
    /\ IdleParser
    /\ IdleReporter
    /\ IdleCalls

\* One call cleanup_branches() (remote "origin", as cli.py:119-126 and the test call it).
CleanupBranches ==
    /\ tool = "github_utils"
    /\ ~cleanup.done
    /\ cleanup' = cleanup_branches("origin", refs)
    /\ UNCHANGED <<tool, refs, pathVars, parserVars, reporterVars, callVars>>

NextCleanup == CleanupBranches

SpecCleanup == InitCleanup /\ [][NextCleanup]_vars

(***************************************************************************)
(* XML documents (xml.etree.ElementTree)                                   *)
(*                                                                         *)
(* A document is the sequence of its elements in document order; element 1 *)
(* is the root and every other element names its parent by index.          *)
(***************************************************************************)
Elem(tag, parent, attrs, txt) == [tag |-> tag, parent |-> parent, attrs |-> attrs, text |-> txt]

\* elem.get(attr): the attribute, or None.
Attr(e, a) == IF a \in DOMAIN e.attrs THEN e.attrs[a] ELSE None

\* Truth value of an Optional[str]: None and "" are false.
Truthy(s) == s # None /\ s # <<>>

\* a or b
Or(a, b) == IF Truthy(a) THEN a ELSE b

\* The children of element i with the given tag, in document order, from index j on.
RECURSIVE ChildrenFrom(_, _, _, _)
ChildrenFrom(doc, i, tag, j) ==
    IF j > Len(doc) THEN <<>>
    ELSE (IF doc[j].parent = i /\ doc[j].tag = tag THEN <<j>> ELSE <<>>)
         \o ChildrenFrom(doc, i, tag, j + 1)

Children(doc, i, tag) == ChildrenFrom(doc, i, tag, 1)

\* elem.find(tag): the first child with that tag, 0 for None.
Find(doc, i, tag) == IF Children(doc, i, tag) = <<>> THEN 0 ELSE Children(doc, i, tag)[1]

\* The first element reached from i along the path of child tags; 0 if none.
RECURSIVE FindPathIn(_, _, _, _)
RECURSIVE FindPath(_, _, _)
FindPathIn(doc, cands, k, path) ==
    IF k > Len(cands) THEN 0
    ELSE LET r == FindPath(doc, cands[k], path) IN
         IF r # 0 THEN r ELSE FindPathIn(doc, cands, k + 1, path)
FindPath(doc, i, path) ==
    IF path = <<>> THEN i
    ELSE FindPathIn(doc, Children(doc, i, path[1]), 1, Tail(path))

\* elem.findtext(path): the text of the first match ("" if it has none), None without a match.
FindText(doc, i, path) ==
    LET e == FindPath(doc, i, path) IN
    IF e = 0 THEN None ELSE IF doc[e].text = None THEN <<>> ELSE doc[e].text

\* root.findall(".//tag"): the descendants of the root with that tag, in document order.
RECURSIVE DescendantsFrom(_, _, _)
DescendantsFrom(doc, tag, j) ==
    IF j > Len(doc) THEN <<>>
    ELSE (IF doc[j].tag = tag THEN <<j>> ELSE <<>>) \o DescendantsFrom(doc, tag, j + 1)

FindAll(doc, tag) == DescendantsFrom(doc, tag, 2)

\* root.findall(".//tag[@attr='value']")
RECURSIVE WithAttr(_, _, _, _)
WithAttr(doc, idx, attr, value) ==
    IF idx = <<>> THEN <<>>
    ELSE (IF Attr(doc[idx[1]], attr) = value THEN <<idx[1]>> ELSE <<>>)
         \o WithAttr(doc, Tail(idx), attr, value)

FindAllWith(doc, tag, attr, value) == WithAttr(doc, FindAll(doc, tag), attr, value)

(***************************************************************************)
(* Reporters: what pester_failures and pytest_failures share               *)
(***************************************************************************)
\* sep.join(parts)
RECURSIVE Join(_, _)
Join(parts, sep) ==
    IF parts = <<>> THEN <<>>
    ELSE IF Len(parts) = 1 THEN parts[1]
    ELSE parts[1] \o sep \o Join(Tail(parts), sep)

\* s.replace(old, "")
RECURSIVE Remove(_, _)
Remove(s, old) ==
    IF Len(s) < Len(old) \/ old = <<>> THEN s
    ELSE IF HasPrefixAt(s, 1, old) THEN Remove(SubSeq(s, Len(old) + 1, Len(s)), old)
    ELSE <<s[1]>> \o Remove(Tail(s), old)

\* str(value) inside an f-string: None prints as "None".
Str(v) == IF v = None THEN <<"N", "o", "n", "e">> ELSE v

\* Details whose commit line is written only when the branch is known too.
details_CommitNeedsBranch(env, os_name) ==
    (IF Truthy(env.RUN_URL) THEN <<<<"R", "u", "n", ":", " ">> \o env.RUN_URL>> ELSE <<>>)
    \o (IF Truthy(env.COMMIT_SHA) /\ Truthy(env.BRANCH_NAME)
        THEN <<<<"C", "o", "m", "m", "i", "t", " ", Backtick>> \o env.COMMIT_SHA
               \o <<Backtick, " ", "o", "n", " ", "b", "r", "a", "n", "c", "h", " ", Backtick>>
               \o Str(env.BRANCH_NAME) \o <<Backtick>>>>
        ELSE <<>>)
    \o <<<<"O", "S", ":", " ">> \o os_name>>

\* details: the run, commit and OS lines appended to every issue body.
details(env, os_name) ==
    (IF Truthy(env.RUN_URL) THEN <<<<"R", "u", "n", ":", " ">> \o env.RUN_URL>> ELSE <<>>)
    \o (IF Truthy(env.COMMIT_SHA)
        THEN <<<<"C", "o", "m", "m", "i", "t", " ", Backtick>> \o env.COMMIT_SHA
               \o <<Backtick, " ", "o", "n", " ", "b", "r", "a", "n", "c", "h", " ", Backtick>>
               \o Str(env.BRANCH_NAME) \o <<Backtick>>>>
        ELSE <<>>)
    \o <<<<"O", "S", ":", " ">> \o os_name>>

\* extra = "\n".join(details)
extra(env, os_name) == Join(details(env, os_name), <<"\n">>)

\* body = f"{message}\n\n{extra}" if message else extra
issue_body(message, ex) == IF message # <<>> THEN message \o <<"\n", "\n">> \o ex ELSE ex

\* f"- **{title}**: {message.strip()}"
summary_line(title, message) ==
    <<"-", " ", "*", "*">> \o title \o <<"*", "*", ":", " ">> \o Strip(message)

(***************************************************************************)
(* pytest_failures                                                         *)
(***************************************************************************)
failure_of_ErrorFirst(doc, case) ==
    IF Find(doc, case, "error") # 0 THEN Find(doc, case, "error")
    ELSE Find(doc, case, "failure")

\* failure = case.find("failure"); if failure is None: failure = case.find("error")
failure_of(doc, case) ==
    IF Find(doc, case, "failure") # 0 THEN Find(doc, case, "failure")
    ELSE Find(doc, case, "error")

\* parts = [p for p in [classname, name] if p]; ".".join(parts) or the default title
pytest_title(doc, case) ==
    LET classname == Attr(doc[case], "classname")
        name == Attr(doc[case], "name")
        parts == (IF Truthy(classname) THEN <<classname>> ELSE <<>>)
                 \o (IF Truthy(name) THEN <<name>> ELSE <<>>)
    IN  IF parts # <<>> THEN Join(parts, <<".">>) ELSE <<"P", "y", "t", "e", "s", "t", " ", "t", "e", "s", "t", " ", "f", "a", "i", "l", "e", "d">>

\* message = failure.get("message") or (failure.text or "")
pytest_message(doc, failure) ==
    Or(Attr(doc[failure], "message"), Or(doc[failure].text, <<>>))

\* The loop over root.findall(".//testcase"): one [title, message] per test
\* case that has a failure (or else an error) child, in document order.
RECURSIVE pytest_failures_from(_, _)
pytest_failures_from(doc, cases) ==
    IF cases = <<>> THEN <<>>
    ELSE (IF failure_of(doc, cases[1]) = 0 THEN <<>>
          ELSE <<[title |-> pytest_title(doc, cases[1]),
                  message |-> pytest_message(doc, failure_of(doc, cases[1]))]>>)
         \o pytest_failures_from(doc, Tail(cases))

pytest_failures(doc) == pytest_failures_from(doc, FindAll(doc, "testcase"))

(***************************************************************************)
(* pester_failures                                                         *)
(***************************************************************************)
RECURSIVE WithChild(_, _, _)
WithChild(doc, idx, tag) ==
    IF idx = <<>> THEN <<>>
    ELSE (IF Find(doc, idx[1], tag) # 0 THEN <<idx[1]>> ELSE <<>>) \o WithChild(doc, Tail(idx), tag)

pester_cases_ByFailureChild(doc) == WithChild(doc, FindAll(doc, "test-case"), "failure")

\* cases: the Failed test-cases, then the Failure test-cases, then the Failed UnitTestResults.
pester_cases(doc) ==
    FindAllWith(doc, "test-case", "result", <<"F", "a", "i", "l", "e", "d">>)
    \o FindAllWith(doc, "test-case", "result", <<"F", "a", "i", "l", "u", "r", "e">>)
    \o FindAllWith(doc, "UnitTestResult", "outcome", <<"F", "a", "i", "l", "e", "d">>)

\* title = case.get("name") or case.get("testName") or "Pester test failed"
pester_title(doc, case) ==
    Or(Attr(doc[case], "name"), Or(Attr(doc[case], "testName"), <<"P", "e", "s", "t", "e", "r", " ", "t", "e", "s", "t", " ", "f", "a", "i", "l", "e", "d">>))

\* message = case.findtext("failure/message") or case.findtext("Output/ErrorInfo/Message") or ""
pester_message(doc, case) ==
    Or(FindText(doc, case, <<"failure", "message">>),
       Or(FindText(doc, case, <<"Output", "ErrorInfo", "Message">>), <<>>))

RECURSIVE pester_failures_from(_, _)
pester_failures_from(doc, cases) ==
    IF cases = <<>> THEN <<>>
    ELSE <<[title |-> pester_title(doc, cases[1]), message |-> pester_message(doc, cases[1])]>>
         \o pester_failures_from(doc, Tail(cases))

pester_failures(doc) == pester_failures_from(doc, pester_cases(doc))

(***************************************************************************)
(* summarize_failures / report_failures of both reporters                  *)
(***************************************************************************)
\* The failing tests the reporter selects, in the order it visits them.
failures_of(reporter, doc) ==
    IF reporter = "pytest_failures" THEN pytest_failures(doc) ELSE pester_failures(doc)

\* The prefix of the results directory that names the reporter.
results_prefix(reporter) ==
    IF reporter = "pytest_failures" THEN <<"p", "y", "t", "e", "s", "t", "-", "r", "e", "s", "u", "l", "t", "s", "-">> ELSE <<"p", "e", "s", "t", "e", "r", "-", "r", "e", "s", "u", "l", "t", "s", "-">>

RECURSIVE SummaryLines(_)
SummaryLines(fs) ==
    IF fs = <<>> THEN <<>>
    ELSE <<summary_line(fs[1].title, fs[1].message)>> \o SummaryLines(Tail(fs))

\* summarize_failures(xml_path): the markdown list, one line per failing test.
summarize_failures(reporter, doc) == Join(SummaryLines(failures_of(reporter, doc)), <<"\n">>)

RECURSIVE IssuesFor(_, _)
IssuesFor(fs, ex) ==
    IF fs = <<>> THEN <<>>
    ELSE <<[title |-> fs[1].title, body |-> issue_body(fs[1].message, ex)]>>
         \o IssuesFor(Tail(fs), ex)

\* report_failures(xml_path): the create_issue calls it makes, in order, if none raises.
report_failures(reporter, doc, env, parent_name) ==
    IssuesFor(failures_of(reporter, doc),
              extra(env, Remove(parent_name, results_prefix(reporter))))

(***************************************************************************)
(* Result files given to the reporters                                     *)
(*                                                                         *)
(* A result file is written from a list of test cases.  Each case of the   *)
(* tables below is the XML subtree of one test (parent 0 is the element    *)
(* the case is put under, another parent is an element of the same case)   *)
(* together with what the test run knows about it: whether the reporter is   *)
(* to file it as a failure, the name of the test and the failure message.   *)
(***************************************************************************)
\* Bound of the reporter models: test cases in one result file.
MaxCases == 2

\* JUnit XML as pytest --junitxml writes it.
PytestCases ==
    << [nodes |-> <<Elem("testcase", 0, [classname |-> <<"p", ".", "T">>, name |-> <<"t", "0">>], None)>>,
        files |-> FALSE, title |-> <<"p", ".", "T", ".", "t", "0">>, message |-> <<>>],
       [nodes |-> <<Elem("testcase", 0, [classname |-> <<"p", ".", "T">>, name |-> <<"t", "1">>], None),
                   Elem("failure", 1, [message |-> <<"o", "o", "p", "s">>], <<"A", "E">>)>>,
        files |-> TRUE, title |-> <<"p", ".", "T", ".", "t", "1">>, message |-> <<"o", "o", "p", "s">>],
       [nodes |-> <<Elem("testcase", 0, [name |-> <<"t", "2">>], None),
                   Elem("error", 1, EmptyDict, <<"b", "o", "o", "m">>)>>,
        files |-> TRUE, title |-> <<"t", "2">>, message |-> <<"b", "o", "o", "m">>],
       [nodes |-> <<Elem("testcase", 0, EmptyDict, None),
                   Elem("skipped", 1, EmptyDict, None),
                   Elem("failure", 1, EmptyDict, None)>>,
        files |-> TRUE, title |-> <<"P", "y", "t", "e", "s", "t", " ", "t", "e", "s", "t", " ", "f", "a", "i", "l", "e", "d">>, message |-> <<>>],
       [nodes |-> <<Elem("testcase", 0, [classname |-> <<"c">>, name |-> <<>>], None),
                   Elem("error", 1, [message |-> <<"e">>], None),
                   Elem("failure", 1, [message |-> <<"f">>], None)>>,
        files |-> TRUE, title |-> <<"c">>, message |-> <<"f">>],
       [nodes |-> <<Elem("testcase", 0, [classname |-> <<"p", ".", "T">>, name |-> <<"t", "3">>], None),
                   Elem("system-out", 1, EmptyDict, <<"e", "r", "r", "o", "r">>)>>,
        files |-> FALSE, title |-> <<"p", ".", "T", ".", "t", "3">>, message |-> <<>>],
       [nodes |-> <<Elem("testcase", 0, [name |-> <<"t", "4">>], None),
                   Elem("properties", 1, EmptyDict, None),
                   Elem("failure", 2, [message |-> <<"g">>], None)>>,
        files |-> FALSE, title |-> <<"t", "4">>, message |-> <<"g">>] >>

\* NUnit XML (test-case) and VSTest TRX (UnitTestResult) as Pester writes them.
PesterCases ==
    << [nodes |-> <<Elem("test-case", 0, [name |-> <<"P", "1">>, result |-> <<"P", "a", "s", "s", "e", "d">>], None),
                   Elem("failure", 1, EmptyDict, None)>>,
        files |-> FALSE, title |-> <<"P", "1">>, message |-> <<>>],
       [nodes |-> <<Elem("test-case", 0, [name |-> <<"F", "1">>, result |-> <<"F", "a", "i", "l", "e", "d">>], None),
                   Elem("failure", 1, EmptyDict, None),
                   Elem("message", 2, EmptyDict, <<"b", "o", "o", "m">>)>>,
        files |-> TRUE, title |-> <<"F", "1">>, message |-> <<"b", "o", "o", "m">>],
       [nodes |-> <<Elem("test-case", 0, [name |-> <<"F", "2">>, result |-> <<"F", "a", "i", "l", "u", "r", "e">>], None)>>,
        files |-> TRUE, title |-> <<"F", "2">>, message |-> <<>>],
       [nodes |-> <<Elem("UnitTestResult", 0, [testName |-> <<"U", "1">>, outcome |-> <<"F", "a", "i", "l", "e", "d">>], None),
                   Elem("Output", 1, EmptyDict, None),
                   Elem("ErrorInfo", 2, EmptyDict, None),
                   Elem("Message", 3, EmptyDict, <<"b", "a", "d">>)>>,
        files |-> TRUE, title |-> <<"U", "1">>, message |-> <<"b", "a", "d">>],
       [nodes |-> <<Elem("UnitTestResult", 0, [testName |-> <<"U", "2">>, outcome |-> <<"P", "a", "s", "s", "e", "d">>], None),
                   Elem("Output", 1, EmptyDict, None)>>,
        files |-> FALSE, title |-> <<"U", "2">>, message |-> <<>>],
       [nodes |-> <<Elem("test-case", 0, [result |-> <<"F", "a", "i", "l", "e", "d">>], None)>>,
        files |-> TRUE, title |-> <<"P", "e", "s", "t", "e", "r", " ", "t", "e", "s", "t", " ", "f", "a", "i", "l", "e", "d">>, message |-> <<>>],
       [nodes |-> <<Elem("test-case", 0, [name |-> <<"F", "3">>, result |-> <<"f", "a", "i", "l", "e", "d">>], None),
                   Elem("failure", 1, EmptyDict, None),
                   Elem("message", 2, EmptyDict, <<"x">>)>>,
        files |-> FALSE, title |-> <<"F", "3">>, message |-> <<"x">>],
       [nodes |-> <<Elem("UnitTestResult", 0, [testName |-> <<"U", "3">>, result |-> <<"F", "a", "i", "l", "e", "d">>], None)>>,
        files |-> FALSE, title |-> <<"U", "3">>, message |-> <<>>] >>

\* The cases table of a reporter.
CasesOf(reporter) == IF reporter = "pytest_failures" THEN PytestCases ELSE PesterCases

\* The elements of one case put under the element container of a document
\* that already has offset elements.
Place(nodes, container, offset) ==
    [k \in 1..Len(nodes) |->
        [nodes[k] EXCEPT !.parent = IF @ = 0 THEN container ELSE @ + offset]]

RECURSIVE Assemble(_, _, _, _)
Assemble(table, ids, container, doc) ==
    IF ids = <<>> THEN doc
    ELSE Assemble(table, Tail(ids), container,
                  doc \o Place(table[ids[1]].nodes, container, Len(doc)))

\* The document of a result file: the root, optionally one suite element
\* under it, and the cases under the innermost of the two.
Document(reporter, ids, nested) ==
    LET root == IF reporter = "pytest_failures" THEN "testsuites" ELSE "test-results"
        suite == IF reporter = "pytest_failures" THEN "testsuite" ELSE "test-suite"
    IN  IF nested
        THEN Assemble(CasesOf(reporter), ids, 2,
                      <<Elem(root, 0, EmptyDict, None), Elem(suite, 1, EmptyDict, None)>>)
        ELSE Assemble(CasesOf(reporter), ids, 1, <<Elem(root, 0, EmptyDict, None)>>)

\* The result files of a reporter: up to MaxCases cases.
ResultFiles(reporter) ==
    {[cases |-> ids, nested |-> n, doc |-> Document(reporter, ids, n)] :
        ids \in UNION {[1..k -> 1..Len(CasesOf(reporter))] : k \in 0..MaxCases},
        n \in BOOLEAN}

\* os.environ as the reporters read it: RUN_URL, COMMIT_SHA and BRANCH_NAME,
\* each unset (None), empty or set.
Environs ==
    { [RUN_URL |-> None, COMMIT_SHA |-> None, BRANCH_NAME |-> None, GITHUB_REPOSITORY |-> None],
      [RUN_URL |-> <<"h", ":", "/", "/", "r">>, COMMIT_SHA |-> <<"d", "0">>, BRANCH_NAME |-> <<"f", "x">>,
       GITHUB_REPOSITORY |-> None],
      [RUN_URL |-> <<>>, COMMIT_SHA |-> <<"d", "0">>, BRANCH_NAME |-> None, GITHUB_REPOSITORY |-> <<>>],
      [RUN_URL |-> <<"h", ":", "/", "/", "r">>, COMMIT_SHA |-> <<>>, BRANCH_NAME |-> <<"f", "x">>,
       GITHUB_REPOSITORY |-> None],
      [RUN_URL |-> None, COMMIT_SHA |-> None, BRANCH_NAME |-> None,
       GITHUB_REPOSITORY |-> <<"o", "/", "r">>] }

\* xml_path.parent.name: the directory the result file is in.
ParentNames ==
    {results_prefix(r) \o <<"u", "x">> : r \in {"pytest_failures", "pester_failures"}}

(***************************************************************************)
(* lint_failures                                                           *)
(***************************************************************************)
\* Bound of the lint model: lines written to the log files.
MaxLogLines == 3

\* Lines a linter writes (without the newline), with what the linter means
\* by them: whether the line is a finding, and the finding without the
\* indentation and padding.
LogLines ==
    << [chars |-> <<"E", "r", "r", "o", "r", " ", "a">>,
        finding |-> TRUE, cleaned |-> <<"E", "r", "r", "o", "r", " ", "a">>],
       [chars |-> <<" ", " ", "E", "r", "r", "o", "r", " ", "a", " ">>,
        finding |-> TRUE, cleaned |-> <<"E", "r", "r", "o", "r", " ", "a">>],
       [chars |-> <<"f", ":", "1", ":", "2", ":", " ", "W">>,
        finding |-> TRUE, cleaned |-> <<"f", ":", "1", ":", "2", ":", " ", "W">>],
       [chars |-> <<"o", "k", " ", "1", ":", "2", ":">>,
        finding |-> FALSE, cleaned |-> <<>>],
       [chars |-> <<"E", "r", "r", "o", "r", " ", "a", "\f", "b">>,
        finding |-> TRUE, cleaned |-> <<"E", "r", "r", "o", "r", " ", "a", "\f", "b">>] >>

\* Files of the log directory, as paths relative to it, with whether the
\* file is a .txt log and its place when the paths are sorted.
LogPaths ==
    << [path |-> <<<<"b", ".", "t", "x", "t">>>>, txt |-> TRUE, place |-> 3],
       [path |-> <<<<"a">>, <<"z", ".", "t", "x", "t">>>>, txt |-> TRUE, place |-> 1],
       [path |-> <<<<"b", ".", "l", "o", "g">>>>, txt |-> FALSE, place |-> 2] >>

\* The log directory itself.
LogDir == <<>>

\* The directory a/ below it, which exists once a file was written under it.
LogSubDir == <<<<"a">>>>

\* What was written: a sequence of (file, line) pairs; a file holds the lines
\* written to it, in order, and exists once a line was written to it.
LogWrites ==
    UNION {[1..n -> (1..Len(LogPaths)) \X (1..Len(LogLines))] : n \in 0..MaxLogLines}

\* The same as pairs of a path and the characters of a line.
Written(l) == [k \in 1..Len(l) |-> <<LogPaths[l[k][1]].path, LogLines[l[k][2]].chars>>]

\* The content of the file p: one text line per write, as "for line in f" yields it.
RECURSIVE ReadLines(_, _)
ReadLines(written, p) ==
    IF written = <<>> THEN <<>>
    ELSE (IF written[1][1] = p THEN <<written[1][2] \o <<"\n">>>> ELSE <<>>)
         \o ReadLines(Tail(written), p)

\* The files that exist under the log directory.
LogFiles(written) == {written[k][1] : k \in 1..Len(written)}

\* a < b on str
RECURSIVE StrLess(_, _)
StrLess(a, b) ==
    IF b = <<>> THEN FALSE
    ELSE IF a = <<>> THEN TRUE
    ELSE IF a[1] # b[1] THEN Ord(a[1]) < Ord(b[1])
    ELSE StrLess(Tail(a), Tail(b))

\* p < q on Path: the lists of components are compared.
RECURSIVE PathLess(_, _)
PathLess(p, q) ==
    IF q = <<>> THEN FALSE
    ELSE IF p = <<>> THEN TRUE
    ELSE IF p[1] # q[1] THEN StrLess(p[1], q[1])
    ELSE PathLess(Tail(p), Tail(q))

\* sorted(paths)
RECURSIVE SortedPaths(_)
SortedPaths(ps) ==
    IF ps = {} THEN <<>>
    ELSE LET m == CHOOSE p \in ps : \A q \in ps \ {p} : PathLess(p, q)
         IN  <<m>> \o SortedPaths(ps \ {m})

\* s.endswith(suffix)
endswith(s, suffix) ==
    /\ Len(suffix) =< Len(s)
    /\ SubSeq(s, Len(s) - Len(suffix) + 1, Len(s)) = suffix

\* path.is_dir(): the log directory, or a directory that holds a written file.
is_dir(written, p) ==
    p = LogDir \/ \E f \in LogFiles(written) : Len(p) < Len(f) /\ SubSeq(f, 1, Len(p)) = p

\* path.rglob('*.txt'): the files below the directory whose name ends in .txt
rglob_txt(written, p) ==
    {f \in LogFiles(written) : /\ Len(p) < Len(f) /\ SubSeq(f, 1, Len(p)) = p
                               /\ endswith(Last(f), <<".", "t", "x", "t">>)}

RECURSIVE RStripAll(_)
RStripAll(ls) == IF ls = <<>> THEN <<>> ELSE <<RStrip(ls[1])>> \o RStripAll(Tail(ls))

RECURSIVE CollectFrom(_, _)
CollectFrom(written, ps) ==
    IF ps = <<>> THEN <<>>
    ELSE RStripAll(ReadLines(written, ps[1])) \o CollectFrom(written, Tail(ps))

\* _collect_lines(path): the lines of the file, or of the .txt files of the
\* directory in sorted order, each without trailing whitespace; opening a
\* path below a regular file raises NotADirectoryError, opening any other
\* path that does not exist raises FileNotFoundError.
collect_lines(written, p) ==
    IF is_dir(written, p)
    THEN [exc |-> NoExc, value |-> CollectFrom(written, SortedPaths(rglob_txt(written, p)))]
    ELSE IF p \in LogFiles(written)
    THEN [exc |-> NoExc, value |-> RStripAll(ReadLines(written, p))]
    ELSE IF \E f \in LogFiles(written) : Len(f) < Len(p) /\ SubSeq(p, 1, Len(f)) = f
    THEN [exc |-> "NotADirectoryError", value |-> <<>>]
    ELSE [exc |-> "FileNotFoundError", value |-> <<>>]

\* str.lower() on the letters of the alphabet.
LowerOf ==
    [A |-> "a", B |-> "b", C |-> "c", D |-> "d", E |-> "e", F |-> "f", G |-> "g",
     H |-> "h", I |-> "i", J |-> "j", K |-> "k", L |-> "l", M |-> "m", N |-> "n",
     O |-> "o", P |-> "p", Q |-> "q", R |-> "r", S |-> "s", T |-> "t", U |-> "u",
     V |-> "v", W |-> "w", X |-> "x", Y |-> "y", Z |-> "z"]

Lower(s) == [k \in 1..Len(s) |-> IF s[k] \in DOMAIN LowerOf THEN LowerOf[s[k]] ELSE s[k]]

\* re.compile(r"(warning|error)", re.IGNORECASE).search(line)
pattern_search(line) ==
    \E i \in 1..Len(line) :
        HasPrefixAt(Lower(line), i, <<"w", "a", "r", "n", "i", "n", "g">>) \/ HasPrefixAt(Lower(line), i, <<"e", "r", "r", "o", "r">>)

\* The end of the run of digits of s that starts at i.
RECURSIVE DigitsEnd(_, _)
DigitsEnd(s, i) == IF i =< Len(s) /\ s[i] \in {"0", "1", "2", "3", "4", "5", "6", "7", "8", "9"} THEN DigitsEnd(s, i + 1) ELSE i

\* re.compile(r".+:\d+:\d+:").match(line): some colon after at least one
\* character is followed by digits, a colon, digits and a colon.
ruff_match(line) ==
    \E k \in 2..Len(line) :
        /\ line[k] = ":"
        /\ \A m \in 1..(k - 1) : line[m] # "\n"
        /\ LET d1 == DigitsEnd(line, k + 1) IN
           /\ d1 > k + 1 /\ d1 =< Len(line) /\ line[d1] = ":"
           /\ LET d2 == DigitsEnd(line, d1 + 1) IN
              d2 > d1 + 1 /\ d2 =< Len(line) /\ line[d2] = ":"

\* The loop of summarize_warnings: the stripped matching lines.
RECURSIVE retained(_)
retained(ls) ==
    IF ls = <<>> THEN <<>>
    ELSE (IF (pattern_search(ls[1]) \/ ruff_match(ls[1])) /\ Strip(ls[1]) # <<>>
          THEN <<Strip(ls[1])>> ELSE <<>>)
         \o retained(Tail(ls))

RECURSIVE FromKeys(_, _)
FromKeys(ls, seen) ==
    IF ls = <<>> THEN <<>>
    ELSE IF ls[1] \in seen THEN FromKeys(Tail(ls), seen)
    ELSE <<ls[1]>> \o FromKeys(Tail(ls), seen \cup {ls[1]})

unique_WithDuplicates(ls) == ls

\* unique = list(dict.fromkeys(lines))
unique(ls) == FromKeys(ls, {})

\* summarize_warnings(path)
summarize_warnings(written, p) ==
    LET c == collect_lines(written, p) IN
    [exc |-> c.exc,
     value |-> IF c.exc = NoExc THEN Join(unique(retained(c.value)), <<"\n">>) ELSE <<>>]

RECURSIVE LintIssues(_)
LintIssues(ls) ==
    IF ls = <<>> THEN <<>>
    ELSE <<[title |-> <<"L", "i", "n", "t", " ", "w", "a", "r", "n", "i", "n", "g", " ", "o", "r", " ", "e", "r", "r", "o", "r">>, body |-> ls[1]]>> \o LintIssues(Tail(ls))

\* report_warnings(path), given the summary: the create_issue calls it
\* makes, in order, if none raises.
report_warnings(summary) ==
    IF summary = <<>> THEN <<>> ELSE LintIssues(splitlines(summary))

(***************************************************************************)
(* _main of the three reporters                                            *)
(***************************************************************************)
Reporters == {"pytest_failures", "pester_failures", "lint_failures"}

\* The name of the directory a file is in: path.parent.name
ParentName(p) == p[Len(p) - 1]

reports_Always(args) == TRUE

\* "if args.summary: print(...) else: report": TRUE iff _main reports.
reports(args) == ~args.summary

\* The summary a reporter computes, or the exception of computing it.
summary_of(reporter, doc, written, p) ==
    IF reporter = "lint_failures" THEN summarize_warnings(written, p)
    ELSE [exc |-> NoExc, value |-> summarize_failures(reporter, doc)]

\* The create_issue calls of a reporter, in order, if none raises.
issues_of(reporter, doc, written, p, env) ==
    IF reporter = "lint_failures" THEN report_warnings(summarize_warnings(written, p).value)
    ELSE report_failures(reporter, doc, env, ParentName(p))

InitPytest ==
    /\ tool = "pytest_failures"
    /\ xml \in ResultFiles("pytest_failures")
    /\ logs = <<>>
    /\ argv \in [summary : BOOLEAN, path : {<<d, <<"j", "u", "n", "i", "t", ".", "x", "m", "l">>>> : d \in ParentNames}]
    /\ environ \in Environs
    /\ run = NotStarted
    /\ IdlePathIndex
    /\ IdleParser
    /\ IdleCleanup
    /\ IdleCalls

InitPester ==
    /\ tool = "pester_failures"
    /\ xml \in ResultFiles("pester_failures")
    /\ logs = <<>>
    /\ argv \in [summary : BOOLEAN, path : {<<d, <<"t", "e", "s", "t", "R", "e", "s", "u", "l", "t", "s", ".", "x", "m", "l">>>> : d \in ParentNames}]
    /\ environ \in Environs
    /\ run = NotStarted
    /\ IdlePathIndex
    /\ IdleParser
    /\ IdleCleanup
    /\ IdleCalls

InitLint ==
    /\ tool = "lint_failures"
    /\ xml = NoResultFile
    /\ logs \in LogWrites
    /\ argv \in [summary : BOOLEAN,
                 path : {LogDir, LogSubDir, LogPaths[3].path, LogPaths[3].path \o <<<<"x">>>>}]
    /\ environ \in {e \in Environs : e.RUN_URL = None}
    /\ run = NotStarted
    /\ IdlePathIndex
    /\ IdleParser
    /\ IdleCleanup
    /\ IdleCalls

InitReporters == InitPytest \/ InitPester \/ InitLint

\* _main(argv) up to its first call of create_issue: in summary mode it
\* prints the summary and is done; otherwise it reads the input and has the
\* issues of its loop to file.
Main ==
    /\ tool \in Reporters
    /\ run.pc = "start"
    /\ LET s == summary_of(tool, xml.doc, Written(logs), argv.path)
           calls == issues_of(tool, xml.doc, Written(logs), argv.path, environ)
       IN  run' =
             IF s.exc # NoExc THEN [run EXCEPT !.pc = "raised", !.exc = s.exc]
             ELSE IF reports(argv)
             THEN [run EXCEPT !.pc = IF calls = <<>> THEN "done" ELSE "filing",
                              !.summary = IF tool = "lint_failures" THEN s.value ELSE None,
                              !.pending = calls]
             ELSE [run EXCEPT !.pc = "done", !.summary = s.value,
                              !.stdout = s.value \o <<"\n">>]
    /\ UNCHANGED <<tool, xml, logs, argv, environ, pathVars, parserVars, cleanupVars, callVars>>

\* create_issue(title, body) as the loop calls it: with GITHUB_REPOSITORY set
\* non-empty, cmd.extend on the tuple raises before gh is run; otherwise gh
\* issue create is run, and the call raises when gh is not installed or
\* exits non-zero.
create_issue_raises(env) ==
    IF Truthy(env.GITHUB_REPOSITORY) THEN {"AttributeError"}
    ELSE {"FileNotFoundError", "CalledProcessError"}

\* The next create_issue(title, body) call of the loop files the issue: gh
\* was run (GITHUB_REPOSITORY is not set) and exited with status 0.
CreateIssue ==
    /\ tool \in Reporters
    /\ run.pc = "filing"
    /\ ~Truthy(environ.GITHUB_REPOSITORY)
    /\ run' = [run EXCEPT !.attempts = Append(@, Head(run.pending)),
                          !.issues = Append(@, Head(run.pending)),
                          !.pending = Tail(@),
                          !.calls = @ + 1,
                          !.pc = IF Len(run.pending) = 1 THEN "done" ELSE "filing"]
    /\ UNCHANGED <<tool, xml, logs, argv, environ, pathVars, parserVars, cleanupVars, callVars>>

\* A failed call after which the loop tries the same issue again, once.
CreateIssueRaises_Retried ==
    /\ tool \in Reporters
    /\ run.pc = "filing"
    /\ run.exc = NoExc
    /\ \E exc \in create_issue_raises(environ) :
          run' = [run EXCEPT !.attempts = Append(@, Head(run.pending)), !.calls = @ + 1,
                            !.exc = exc]
    /\ UNCHANGED <<tool, xml, logs, argv, environ, pathVars, parserVars, cleanupVars, callVars>>

\* A failed call whose exception is caught: the loop goes on to the next issue.
CreateIssueRaises_Caught ==
    /\ tool \in Reporters
    /\ run.pc = "filing"
    /\ run' = [run EXCEPT !.attempts = Append(@, Head(run.pending)), !.calls = @ + 1,
                          !.pending = Tail(@),
                          !.pc = IF Len(run.pending) = 1 THEN "done" ELSE "filing"]
    /\ UNCHANGED <<tool, xml, logs, argv, environ, pathVars, parserVars, cleanupVars, callVars>>

\* The next create_issue call raises: nothing catches the exception and the
\* loop ends.
CreateIssueRaises ==
    /\ tool \in Reporters
    /\ run.pc = "filing"
    /\ \E exc \in create_issue_raises(environ) :
          run' = [run EXCEPT !.attempts = Append(@, Head(run.pending)), !.calls = @ + 1,
                            !.exc = exc, !.pc = "raised"]
    /\ UNCHANGED <<tool, xml, logs, argv, environ, pathVars, parserVars, cleanupVars, callVars>>

NextReporters == Main \/ CreateIssue \/ CreateIssueRaises

SpecPytest == InitPytest /\ [][NextReporters]_vars
SpecPester == InitPester /\ [][NextReporters]_vars
SpecLint == InitLint /\ [][NextReporters]_vars
SpecReporters == InitReporters /\ [][NextReporters]_vars

\* The procedures that issue external commands in a loop: the three
\* reporters and cleanup_branches.
SpecCommands == (InitReporters \/ InitCleanup) /\ [][NextReporters \/ NextCleanup]_vars

(***************************************************************************)
(* github_utils: the gh wrappers                                           *)
(*                                                                         *)
(* Like cleanup_branches, the wrappers live in the file that does not      *)
(* compile: a call ends in the import's exception and runs no command,     *)
(* whatever gh would have answered.                                        *)
(***************************************************************************)
\* create_issue(title, body) with GITHUB_REPOSITORY = repo
create_issue(title, text_body, repo, gh) == [exc |-> github_utils_import, commands |-> <<>>]

\* Titles, bodies and values of GITHUB_REPOSITORY that create_issue is called with.
IssueTitles == {<<"t">>, <<"-", "t">>, <<>>}
IssueBodies == {<<"b">>, <<"-", "R">>, <<>>}
Repositories == {None, <<>>, <<"o", "/", "r">>}

InitCreateIssue ==
    /\ tool = "create_issue"
    /\ call \in [made : {TRUE}, title : IssueTitles, body : IssueBodies,
                 repo : Repositories, gh : {0, 1}]
    /\ outcome = [done |-> FALSE]
    /\ IdlePathIndex
    /\ IdleParser
    /\ IdleCleanup
    /\ IdleReporter

\* One call create_issue(title, body).
CallCreateIssue ==
    /\ tool = "create_issue"
    /\ ~outcome.done
    /\ LET r == create_issue(call.title, call.body, call.repo, call.gh) IN
       outcome' = [done |-> TRUE, exc |-> r.exc, commands |-> r.commands]
    /\ UNCHANGED <<tool, call, pathVars, parserVars, cleanupVars, reporterVars>>

NextCreateIssue == CallCreateIssue

SpecCreateIssue == InitCreateIssue /\ [][NextCreateIssue]_vars

(***************************************************************************)
(* cli: the repo commands                                                  *)
(***************************************************************************)
\* Bound of the cli model: the largest pull request or issue number.
MaxNumber == 5

\* The commands registered on repo_app.
RepoCommands == {"close-pr", "close-issue", "view-issue", "parse-issue", "cleanup"}

\* Command lines: "repo", a word, and possibly a number; "hv" and a command
\* of hv_app (facts, deploy); a command of app itself (ui).
CommandLines ==
    LET words == RepoCommands \cup {"index"} IN
    {<<"repo", w>> : w \in words} \cup {<<"repo", w, n>> : w \in words, n \in 1..MaxNumber}
        \cup {<<"hv", w>> : w \in {"facts", "deploy"}} \cup {<<"ui">>}

\* app(args): "from . import github_utils, issue_parser" at the head of
\* cli.py raises before any command is registered, so whatever the command
\* line, the process ends with the uncaught exception (status 1): no
\* command function runs, no gh command, no log record, no update_index.
app(args, gh) ==
    [exit_code |-> IF github_utils_import = NoExc THEN 0 ELSE 1, exc |-> github_utils_import,
     commands |-> <<>>, log |-> <<>>, update_index |-> 0]

InitCli ==
    /\ tool = "cli"
    /\ call \in [made : {TRUE}, args : CommandLines, gh : {0, 1}]
    /\ outcome = [done |-> FALSE]
    /\ IdlePathIndex
    /\ IdleParser
    /\ IdleCleanup
    /\ IdleReporter

\* One run of the command line.
RunCli ==
    /\ tool = "cli"
    /\ ~outcome.done
    /\ LET r == app(call.args, call.gh) IN
       outcome' = [done |-> TRUE, exit_code |-> r.exit_code, exc |-> r.exc,
                   commands |-> r.commands,
                   log |-> r.log, update_index |-> r.update_index]
    /\ UNCHANGED <<tool, call, pathVars, parserVars, cleanupVars, reporterVars>>

NextCli == RunCli

SpecCli == InitCli /\ [][NextCli]_vars

(***************************************************************************)
(* cli.load_config                                                         *)
(***************************************************************************)

\* str.rfind(c) over s[1..i]: the last position of c, 0 when absent.
RECURSIVE RFind(_, _, _)
RFind(s, c, i) == IF i = 0 THEN 0 ELSE IF s[i] = c THEN i ELSE RFind(s, c, i - 1)

\* Path(p).parts without the anchor: the pieces between slashes, empty
\* pieces and "." left out.
RECURSIVE PathParts(_)
PathParts(p) ==
    IF p = <<>> THEN <<>>
    ELSE LET i == RFind(p, "/", Len(p))
             piece == SubSeq(p, i + 1, Len(p))
             rest == IF i = 0 THEN <<>> ELSE PathParts(SubSeq(p, 1, i - 1))
         IN  IF piece \in {<<>>, <<".">>} THEN rest ELSE Append(rest, piece)

\* Path.name: the final component, empty when there is none.
PathName(p) == LET parts == PathParts(p) IN IF parts = <<>> THEN <<>> ELSE parts[Len(parts)]

\* Path.suffix: the final component from its last dot, when that dot is
\* neither its first nor its last character.
suffix(p) ==
    LET name == PathName(p)
        i == RFind(name, ".", Len(name))
    IN  IF 1 < i /\ i < Len(name) THEN SubSeq(name, i, Len(name)) ELSE <<>>

\* The config files: yaml says whether the name ends in .yaml or .yml in any case.
ConfigPaths ==
    << [chars |-> <<"c", ".", "j", "s", "o", "n">>, yaml |-> FALSE],
       [chars |-> <<"c", ".", "y", "a", "m", "l">>, yaml |-> TRUE],
       [chars |-> <<"c", ".", "y", "m", "l">>, yaml |-> TRUE],
       [chars |-> <<"c", ".", "Y", "M", "L">>, yaml |-> TRUE],
       [chars |-> <<"c", ".", "Y", "a", "m", "l">>, yaml |-> TRUE],
       [chars |-> <<"c", ".", "y", "a", "m", "l", ".", "b", "a", "k">>, yaml |-> FALSE],
       [chars |-> <<".", "y", "a", "m", "l">>, yaml |-> FALSE],
       [chars |-> <<"c", ".", "y", "a", "m", "l", ".">>, yaml |-> FALSE],
       [chars |-> <<"c">>, yaml |-> FALSE],
       [chars |-> <<"a", ".", "y", "m", "l", "/", "c">>, yaml |-> FALSE] >>

\* The contents written to a config file, with what the json and the yaml
\* library make of each: a value (shown as Python prints it) or a parse error.
ConfigContents ==
    << [chars |-> <<"{", "\"", "a", "\"", ":", " ", "1", "}">>,
        json |-> [ok |-> TRUE, value |-> "{'a': 1}"], yaml |-> [ok |-> TRUE, value |-> "{'a': 1}"]],
       [chars |-> <<"a", ":", " ", "1">>,
        json |-> [ok |-> FALSE, value |-> ""], yaml |-> [ok |-> TRUE, value |-> "{'a': 1}"]],
       [chars |-> <<"{", "b", "a", "d", " ", "j", "s", "o", "n", "}">>,
        json |-> [ok |-> FALSE, value |-> ""], yaml |-> [ok |-> TRUE, value |-> "{'bad json': None}"]],
       [chars |-> <<"a", ":", " ", "[", "b">>,
        json |-> [ok |-> FALSE, value |-> ""], yaml |-> [ok |-> FALSE, value |-> ""]],
       [chars |-> <<>>,
        json |-> [ok |-> FALSE, value |-> ""], yaml |-> [ok |-> TRUE, value |-> "None"]],
       [chars |-> <<"[", "1", "]">>,
        json |-> [ok |-> TRUE, value |-> "[1]"], yaml |-> [ok |-> TRUE, value |-> "[1]"]] >>

ContentOf(data) == ConfigContents[CHOOSE k \in 1..Len(ConfigContents) : ConfigContents[k].chars = data]

\* json.loads(data)
json_loads(data) ==
    IF ContentOf(data).json.ok THEN [exc |-> NoExc, value |-> ContentOf(data).json.value]
    ELSE [exc |-> "JSONDecodeError", value |-> "None"]

\* yaml.safe_load(data)
yaml_safe_load(data) ==
    IF ContentOf(data).yaml.ok THEN [exc |-> NoExc, value |-> ContentOf(data).yaml.value]
    ELSE [exc |-> "YAMLError", value |-> "None"]

\* A suffix test that looks at the suffix as written.
is_yaml_CaseSensitive(p) == suffix(p) \in {<<".", "y", "a", "m", "l">>, <<".", "y", "m", "l">>}

\* path.suffix.lower() in {".yaml", ".yml"}
is_yaml(p) == Lower(suffix(p)) \in {<<".", "y", "a", "m", "l">>, <<".", "y", "m", "l">>}

\* load_config(path): [exc, value, parser]; data is the content of the file,
\* None when there is no such file.
load_config(p, data) ==
    IF data = None THEN [exc |-> "FileNotFoundError", value |-> "None", parser |-> "none"]
    ELSE IF is_yaml(p)
    THEN [exc |-> yaml_safe_load(data).exc, value |-> yaml_safe_load(data).value, parser |-> "yaml"]
    ELSE [exc |-> json_loads(data).exc, value |-> json_loads(data).value, parser |-> "json"]

InitLoadConfig ==
    /\ tool = "load_config"
    /\ call \in [made : {TRUE},
                 path : {ConfigPaths[k].chars : k \in 1..Len(ConfigPaths)},
                 data : {ConfigContents[k].chars : k \in 1..Len(ConfigContents)} \cup {None}]
    /\ outcome = [done |-> FALSE]
    /\ IdlePathIndex
    /\ IdleParser
    /\ IdleCleanup
    /\ IdleReporter

\* One call load_config(path).
LoadConfig ==
    /\ tool = "load_config"
    /\ ~outcome.done
    /\ LET r == load_config(call.path, call.data) IN
       outcome' = [done |-> TRUE, exc |-> r.exc, value |-> r.value, parser |-> r.parser]
    /\ UNCHANGED <<tool, call, pathVars, parserVars, cleanupVars, reporterVars>>

NextLoadConfig == LoadConfig

SpecLoadConfig == InitLoadConfig /\ [][NextLoadConfig]_vars

(***************************************************************************)
(* Properties of path_index                                                *)
(***************************************************************************)
\* The regular files under the root whose final component is name.
FilesNamed(fs, name) == {p \in fs : Basename(p) = name}

\* C3 as stated: after resolve_path(name) returned A and the file moved from A
\* to B, the next resolve_path(name) returns B.
C3_RoundTripAnyName ==
    hist.stage = "healed" => (hist.exc = NoExc /\ hist.ret = hist.b)

\* The bare name has no "[" and no two asterisks in a row.
PlainName(name) ==
    LET s == Spell(name[1]) IN
    /\ \A k \in 1..Len(s) : s[k] # "["
    /\ \A k \in 1..(Len(s) - 1) : ~(s[k] = "*" /\ s[k + 1] = "*")

\* C3 amended once: for a bare file name, when the moved file is the only
\* regular file of that name under the root, the next resolve_path(name)
\* returns its new location B.  Too weak: it fails for the name a[1].txt.
C3_RoundTripBareUniqueAnyName ==
    (/\ hist.stage = "healed"
     /\ Len(hist.name) = 1
     /\ FilesNamed(files, hist.name) = {hist.b})
    => (hist.exc = NoExc /\ hist.ret = hist.b)

\* C3 amended: for a bare file name with no "[" and no "**" in it, when the
\* moved file is the only regular file of that name under the root, the next
\* resolve_path(name) returns its new location B, neither the stale cached A
\* nor None.
C3_RoundTripBareUnique ==
    (/\ hist.stage = "healed"
     /\ Len(hist.name) = 1
     /\ PlainName(hist.name)
     /\ FilesNamed(files, hist.name) = {hist.b})
    => (hist.exc = NoExc /\ hist.ret = hist.b)

\* C3 witness: a bare name was resolved to A, its only file moved from A to B
\* while the cache still held A, and the next call returned B.
C3_Witness ==
    /\ hist.stage = "healed"
    /\ Len(hist.name) = 1
    /\ PlainName(hist.name)
    /\ FilesNamed(files, hist.name) = {hist.b}
    /\ hist.a # hist.b
    /\ hist.ret = hist.b
    /\ INDEX[hist.name] = hist.b

\* C4: a call that neither the cache nor the search can answer returns None
\* and raises nothing.
C4_MissReturnsNone ==
    (last.name # None /\ ~last.cached /\ ~last.found)
    => (last.exc = NoExc /\ last.ret = None)

\* A step that is one resolve_path call.
ResolveStep == \E name \in LookupNames : last'.name = name /\ ResolvePath(name)

\* The entry the cache holds for name when the call looks it up: the cache as
\* it is, or as the manifest on disk fills it when it is empty.
EntryAtCall(name) ==
    IF INDEX # EmptyDict THEN DictGet(INDEX, name)
    ELSE IF ~yaml_ok THEN None
    ELSE LET first == IF manifest[1].exists THEN manifest[1].data ELSE manifest[2].data
             full == {k \in 1..Len(first) : first[k][1] = name}
             base == {k \in 1..Len(first) : <<Last(first[k][1])>> = name}
         IN  IF full # {} THEN first[CHOOSE k \in full : \A j \in full : j =< k][2]
             ELSE IF base # {} THEN first[CHOOSE k \in base : \A j \in base : k =< j][2]
             ELSE None

\* C21: a resolve_path call never returns a path that does not exist when it
\* is made; when the cache entry for the name is stale the call does not
\* return it but what the search finds, a file of that name or None.
C21_NeverReturnsMissing ==
    [][ResolveStep =>
          /\ last'.ret # None => Exists(files, last'.ret)
          /\ (EntryAtCall(last'.name) # None /\ ~Exists(files, EntryAtCall(last'.name))) =>
                /\ ~last'.cached
                /\ last'.ret # EntryAtCall(last'.name)
                /\ last'.exc = NoExc =>
                      last'.ret \in FilesNamed(files, last'.name) \cup {None}]_vars

\* C21 witness: the cache holds an entry for the name whose target does not
\* exist, no file of that name exists, and the call returned None.
C21_Witness ==
    /\ files = {}
    /\ last.name \in DOMAIN INDEX
    /\ INDEX[last.name] # <<>>
    /\ last.exc = NoExc
    /\ last.ret = None

\* C24 as stated: a call that returns None leaves the cache as it was.
C24_MissLeavesCache ==
    [][(ResolveStep /\ last'.exc = NoExc /\ last'.ret = None) => INDEX' = INDEX]_vars

\* C24 amended: a call that returns None on a cache that is not empty leaves
\* the cache as it was, and on an empty cache with no readable manifest leaves
\* it empty; a non-empty cache changes only in the entry of a name the
\* search has just found.
C24_MissLeavesLoadedCache ==
    [][ResolveStep =>
          /\ (last'.exc = NoExc /\ last'.ret = None /\ INDEX # EmptyDict) => INDEX' = INDEX
          /\ (last'.exc = NoExc /\ last'.ret = None /\ INDEX = EmptyDict
                 /\ (~yaml_ok \/ manifest = <<Absent, Absent>>)) => INDEX' = EmptyDict
          /\ (INDEX # EmptyDict /\ INDEX' # INDEX) =>
                /\ last'.ret \in FilesNamed(files, last'.name)
                /\ ~last'.cached
                /\ DOMAIN INDEX' = (DOMAIN INDEX) \cup {last'.name}
                /\ \A k \in (DOMAIN INDEX) \ {last'.name} : INDEX'[k] = INDEX[k]]_vars

\* C24 witness: a name the cache has no entry for was not found, and the
\* entries the cache holds for other names are still there.
C24_Witness ==
    /\ INDEX # EmptyDict
    /\ last.name # None
    /\ last.name \notin DOMAIN INDEX
    /\ last.exc = NoExc
    /\ last.ret = None

\* C27: with no manifest, whatever files were created, moved and deleted and
\* whatever was resolved before, a call for a bare file name returns an
\* existing file of that name when there is one and None when there is none.
C27_BareNameFindsExisting ==
    [][(ResolveStep /\ manifest = <<Absent, Absent>> /\ Len(last'.name) = 1) =>
          /\ last'.exc = NoExc
          /\ IF FilesNamed(files, last'.name) # {}
             THEN last'.ret \in FilesNamed(files, last'.name)
             ELSE last'.ret = None]_vars

\* The content load_index reads when the cache is empty: that of the root
\* manifest when it exists, else that of the configs/project manifest.
ManifestRead ==
    IF ~yaml_ok THEN <<>>
    ELSE IF manifest[1].exists THEN manifest[1].data
    ELSE manifest[2].data

\* C29: a load_index or resolve_path call made while the cache holds an
\* entry reads no manifest: the cache keeps its keys and values, whatever is
\* on disk, and changes at most in the entry of the name resolve_path has
\* just found.  A call made while the cache is empty loads the root manifest
\* if it exists and the configs/project manifest otherwise.
C29_ManifestReadOnlyWhileEmpty ==
    /\ [][LoadIndex =>
            /\ INDEX # EmptyDict => INDEX' = INDEX
            /\ INDEX = EmptyDict =>
                  /\ \A k \in 1..Len(ManifestRead) :
                        /\ ManifestRead[k][1] \in DOMAIN INDEX'
                        /\ INDEX'[ManifestRead[k][1]] = ManifestRead[k][2]
                  /\ DOMAIN INDEX' =
                        {ManifestRead[k][1] : k \in 1..Len(ManifestRead)}
                        \cup {<<Last(ManifestRead[k][1])>> : k \in 1..Len(ManifestRead)}]_vars
    /\ [][ResolveStep =>
             /\ INDEX # EmptyDict =>
                   /\ DOMAIN INDEX \subseteq DOMAIN INDEX'
                   /\ DOMAIN INDEX' \subseteq (DOMAIN INDEX) \cup {last'.name}
                   /\ \A k \in (DOMAIN INDEX) \ {last'.name} : INDEX'[k] = INDEX[k]
             /\ INDEX = EmptyDict =>
                   /\ \A k \in 1..Len(ManifestRead) :
                         /\ ManifestRead[k][1] \in DOMAIN INDEX'
                         /\ INDEX'[ManifestRead[k][1]] = ManifestRead[k][2]
                   /\ DOMAIN INDEX' \subseteq
                         {ManifestRead[k][1] : k \in 1..Len(ManifestRead)}
                         \cup {<<Last(ManifestRead[k][1])>> : k \in 1..Len(ManifestRead)}
                         \cup {last'.name}]_vars

\* C29 witness: a call was made while the root manifest on disk held a key
\* that the cache, not empty, has never taken in.
C29_Witness ==
    /\ yaml_ok
    /\ INDEX # EmptyDict
    /\ last.name # None
    /\ last.manifest[1].exists
    /\ \E k \in 1..Len(last.manifest[1].data) : last.manifest[1].data[k][1] \notin DOMAIN INDEX

(***************************************************************************)
(* Properties of issue_parser                                              *)
(***************************************************************************)
\* The first line of the body that is not blank, by construction of the body;
\* 0 if every line is blank.
RECURSIVE FirstWritten(_, _)
FirstWritten(b, i) ==
    IF i > Len(b) THEN 0
    ELSE IF BodyLines[b[i]].kind # "blank" THEN i ELSE FirstWritten(b, i + 1)

\* TRUE iff the body opens (after blank lines) with a line of the producer format.
OpensWithRun(b) ==
    FirstWritten(b, 1) # 0 /\ BodyLines[b[FirstWritten(b, 1)]].kind = "run"

\* C5: run_url, commit and branch are the url, sha and branch of the first
\* line of the stripped body when that line has the producer format, and are
\* all None when it has not, whatever the later lines are.
C5_FirstLineMetadata ==
    parsed.done =>
        /\ parsed.out.exc = NoExc
        /\ IF OpensWithRun(body)
           THEN LET l == BodyLines[body[FirstWritten(body, 1)]] IN
                /\ parsed.out.value.run_url = l.url
                /\ parsed.out.value.commit = l.sha
                /\ parsed.out.value.branch = l.branch
           ELSE /\ parsed.out.value.run_url = None
                /\ parsed.out.value.commit = None
                /\ parsed.out.value.branch = None

\* C5 witness: a parsed body whose first written line does not have the
\* producer format while a later line has, and the three fields are None.
C5_Witness ==
    /\ parsed.done
    /\ ~OpensWithRun(body)
    /\ \E i \in 1..Len(body) : BodyLines[body[i]].kind = "run"
    /\ parsed.out.value.run_url = None

\* C6: parse_issue_body never raises; it returns a record of exactly the keys
\* run_url, commit, branch, jobs, tests, with empty jobs and tests when the
\* body has no heading and None metadata when it does not open with a run line.
C6_TotalOnStrings ==
    parsed.done =>
        /\ parsed.out.exc = NoExc
        /\ DOMAIN parsed.out.value = {"run_url", "commit", "branch", "jobs", "tests"}
        /\ (\A i \in 1..Len(body) : BodyLines[body[i]].kind # "heading")
              => (parsed.out.value.jobs = <<>> /\ parsed.out.value.tests = <<>>)
        /\ ~OpensWithRun(body)
              => (/\ parsed.out.value.run_url = None
                  /\ parsed.out.value.commit = None
                  /\ parsed.out.value.branch = None)

\* C6 witness: a whitespace-only text was parsed into the all-empty record.
C6_Witness ==
    /\ parsed.done
    /\ text # <<>>
    /\ FirstWritten(body, 1) = 0
    /\ parsed.out.exc = NoExc
    /\ parsed.out.value =
         [run_url |-> None, commit |-> None, branch |-> None, jobs |-> <<>>, tests |-> <<>>]

(***************************************************************************)
(* Properties of github_utils                                              *)
(***************************************************************************)
ProtectedNames == {"HEAD", "main", "master"}

\* The lines of the listing that cleanup_branches may delete.
Eligible(listing) == {i \in 1..Len(listing) : listing[i].name \notin ProtectedNames}

\* The hour-bucket of a commit time.
Bucket(time) == time[1]

\* The names for which a git push --delete command was issued.
Pushed(c) == {c.commands[k] : k \in 1..Len(c.commands)}

\* C2: after cleanup_branches, in every hour-bucket that has eligible branches
\* exactly one of them is kept, it has the latest commit time of the bucket,
\* and every other eligible branch of the bucket was deleted.
C2_KeepsNewestPerBucket ==
    cleanup.done =>
        \A i \in Eligible(refs) :
            LET bucket == {j \in Eligible(refs) : Bucket(refs[j].time) = Bucket(refs[i].time)}
                kept == {j \in bucket : refs[j].name \notin Pushed(cleanup)}
            IN  /\ Cardinality(kept) = 1
                /\ \A k \in kept : \A j \in bucket : refs[j].time[2] =< refs[k].time[2]

\* C22: when several eligible branches of one hour-bucket share the latest
\* commit time of the bucket, the one listed first is kept and every other
\* eligible branch of the bucket is deleted.
C22_TieKeepsFirstListed ==
    cleanup.done =>
        \A i \in Eligible(refs) :
            LET bucket == {j \in Eligible(refs) : Bucket(refs[j].time) = Bucket(refs[i].time)}
                tied == {j \in bucket : \A k \in bucket : refs[k].time[2] =< refs[j].time[2]}
                first == CHOOSE j \in tied : \A k \in tied : j =< k
            IN  Cardinality(tied) > 1 =>
                    /\ refs[first].name \notin Pushed(cleanup)
                    /\ \A j \in bucket \ {first} : refs[j].name \in Pushed(cleanup)

(***************************************************************************)
(* Properties of the reporters                                             *)
(***************************************************************************)
\* sub in s
Contains(s, sub) == \E i \in 1..(Len(s) + 1) : HasPrefixAt(s, i, sub)

\* The writes _collect_lines reads: those to the .txt files when the path
\* is the log directory, those to the .txt files under a/ when it is that
\* directory, those to the file when the path is a file.
LintRead ==
    {k \in 1..Len(logs) :
        IF argv.path = LogDir THEN LogPaths[logs[k][1]].txt
        ELSE IF argv.path = LogSubDir
        THEN LogPaths[logs[k][1]].txt /\ Head(LogPaths[logs[k][1]].path) = <<"a">>
        ELSE LogPaths[logs[k][1]].path = argv.path}

\* The findings among them.
LintFindings == {k \in LintRead : LogLines[logs[k][2]].finding}

\* Write j is read before write k: its file sorts first, or it is an
\* earlier line of the same file.
ReadBefore(j, k) ==
    \/ LogPaths[logs[j][1]].place < LogPaths[logs[k][1]].place
    \/ LogPaths[logs[j][1]].place = LogPaths[logs[k][1]].place /\ j < k

\* The first finding read whose text is the given line.
FirstSeen(line) ==
    CHOOSE k \in LintFindings :
        /\ LogLines[logs[k][2]].cleaned = line
        /\ \A j \in LintFindings :
              LogLines[logs[j][2]].cleaned = line /\ j # k => ReadBefore(k, j)

\* The lines of a summary: what "\n".join put together.
RECURSIVE Joined(_)
Joined(s) ==
    IF s = <<>> THEN <<>>
    ELSE LET j == CHOOSE k \in 1..(Len(s) + 1) :
                      /\ k = Len(s) + 1 \/ s[k] = "\n"
                      /\ \A m \in 1..(k - 1) : s[m] # "\n"
         IN  <<SubSeq(s, 1, j - 1)>> \o Joined(SubSeq(s, j + 1, Len(s)))

\* C7: summarize_warnings returns each retained line at most once, and the
\* retained lines appear in the order of their first occurrence in the
\* input (files of a directory in sorted path order, lines in file order).
C7_UniqueInFirstSeenOrder ==
    (tool = "lint_failures" /\ run.summary # None) =>
        LET out == Joined(run.summary) IN
        /\ \A i, j \in 1..Len(out) : i # j => out[i] # out[j]
        /\ {out[i] : i \in 1..Len(out)} = {LogLines[logs[k][2]].cleaned : k \in LintFindings}
        /\ \A i, j \in 1..Len(out) : i < j => ReadBefore(FirstSeen(out[i]), FirstSeen(out[j]))

\* A directory where a finding is repeated and the file written last is read first.
C7_Witness ==
    /\ tool = "lint_failures"
    /\ run.summary # None
    /\ argv.path = LogDir
    /\ Cardinality(LintFindings) = 3
    /\ Len(Joined(run.summary)) = 2
    /\ \E j, k \in LintFindings : j < k /\ ReadBefore(k, j)

\* C8: in --summary mode the pester, pytest and lint reporters never call
\* create_issue (the only place that runs an external command); issues are
\* filed only when --summary is absent.
C8_SummaryFilesNothing ==
    (tool \in Reporters /\ argv.summary) =>
        /\ run.calls = 0
        /\ run.issues = <<>>
        /\ run.pending = <<>>
        /\ run.pc \in {"start", "done", "raised"}

\* The failing cases of the result file, in document order.
Failing(reporter) == SelectSeq(xml.cases, LAMBDA id : CasesOf(reporter)[id].files)

\* A summary of two failures was printed.
C8_Witness ==
    /\ tool = "pytest_failures"
    /\ argv.summary
    /\ run.pc = "done"
    /\ Len(Failing("pytest_failures")) = 2
    /\ Len(splitlines(run.stdout)) = 2

\* C9: pytest report_failures files exactly one issue for each testcase
\* that has a failure child or, failing that, an error child, in document
\* order, and none for a testcase with neither; the title is classname.name
\* (only the present attribute when one is missing, "Pytest test failed"
\* when both are missing) and the body contains the failure message.
C9_OneIssuePerFailedTestcase ==
    tool = "pytest_failures" =>
        LET failing == Failing("pytest_failures") IN
        /\ Len(run.issues) =< Len(failing)
        /\ \A k \in 1..Len(run.issues) :
              /\ run.issues[k].title = PytestCases[failing[k]].title
              /\ Contains(run.issues[k].body, PytestCases[failing[k]].message)
        /\ (run.pc = "done" /\ ~argv.summary) => Len(run.issues) = Len(failing)

\* A testcase with an error before its failure and an empty name, and a
\* testcase without classname that has only an error, were both filed.
C9_Witness ==
    /\ tool = "pytest_failures"
    /\ ~argv.summary
    /\ run.pc = "done"
    /\ xml.cases = <<5, 3>>
    /\ Len(run.issues) = 2
    /\ environ.COMMIT_SHA = None

\* The number of elements of s equal to x.
Count(s, x) == Cardinality({k \in 1..Len(s) : s[k] = x})

Titles(issues) == [k \in 1..Len(issues) |-> issues[k].title]

\* C10: pester report_failures files an issue for a node if and only if it
\* is a test-case whose result is Failed or Failure or a UnitTestResult whose
\* outcome is Failed; a test-case with result Passed is never reported even
\* when it has a failure child; exactly one issue is filed per selected node.
C10_IssueIffFailedNode ==
    tool = "pester_failures" =>
        \A id \in 1..Len(PesterCases) :
            LET filed == Count(Titles(run.issues), PesterCases[id].title)
                nodes == IF PesterCases[id].files THEN Count(xml.cases, id) ELSE 0
            IN  /\ filed =< nodes
                /\ (run.pc = "done" /\ ~argv.summary) => filed = nodes

\* A Passed test-case with a failure child and a Failed test-case: one issue.
C10_Witness ==
    /\ tool = "pester_failures"
    /\ ~argv.summary
    /\ run.pc = "done"
    /\ xml.cases = <<1, 2>>
    /\ Len(run.issues) = 1
    /\ run.issues[1].title = PesterCases[2].title

(***************************************************************************)
(* Properties of cli and of the gh wrappers                                *)
(***************************************************************************)
\* C11: repo close-pr N (repo close-issue N) invokes gh pr close N (gh issue
\* close N); if gh succeeds the exit code is 0 and the Closed message was
\* logged; if gh fails the exit code is non-zero and the message is not logged.
C11_CloseRunsGh ==
    (tool = "cli" /\ outcome.done /\ Len(call.args) = 3
        /\ call.args[2] \in {"close-pr", "close-issue"}) =>
        LET pr == call.args[2] = "close-pr" IN
        /\ outcome.commands =
              <<<<"gh", IF pr THEN "pr" ELSE "issue", "close", call.args[3]>>>>
        /\ call.gh = 0 =>
              /\ outcome.exit_code = 0
              /\ outcome.log = <<<<IF pr THEN "Closed pull request #%s" ELSE "Closed issue #%s",
                                  call.args[3]>>>>
        /\ call.gh # 0 => outcome.exit_code # 0 /\ outcome.log = <<>>

\* C15: create_issue(title, body) runs exactly the command gh issue create
\* -t title -b body, with -R repo appended iff GITHUB_REPOSITORY is set and
\* not empty.
C15_CreateIssueCommand ==
    (tool = "create_issue" /\ outcome.done) =>
        outcome.commands =
            <<<<"gh", "issue", "create", "-t", call.title, "-b", call.body>>
              \o (IF call.repo # None /\ call.repo # <<>> THEN <<"-R", call.repo>> ELSE <<>>)>>

\* C17: repo index calls update_index.update_index exactly once and exits
\* with code 0.
C17_RepoIndexRuns ==
    (tool = "cli" /\ outcome.done /\ call.args = <<"repo", "index">>) =>
        outcome.exit_code = 0 /\ outcome.update_index = 1

\* The config file / content the call was made with.
ConfigPath == ConfigPaths[CHOOSE k \in 1..Len(ConfigPaths) : ConfigPaths[k].chars = call.path]
ConfigContent == ContentOf(call.data)

\* C16: load_config parses a file whose suffix is .yaml or .yml (in any case)
\* as YAML and every other file as JSON, whatever the content; content that
\* is not valid in that format raises that format's parse error and content
\* that is valid returns the parsed value.
C16_ParserBySuffix ==
    (tool = "load_config" /\ outcome.done /\ call.data # None) =>
        IF ConfigPath.yaml
        THEN /\ outcome.parser = "yaml"
             /\ ~ConfigContent.yaml.ok => outcome.exc = "YAMLError"
             /\ ConfigContent.yaml.ok =>
                   (outcome.exc = NoExc /\ outcome.value = ConfigContent.yaml.value)
        ELSE /\ outcome.parser = "json"
             /\ ~ConfigContent.json.ok => outcome.exc = "JSONDecodeError"
             /\ ConfigContent.json.ok =>
                   (outcome.exc = NoExc /\ outcome.value = ConfigContent.json.value)

\* C16 witness: a file with an upper-case YAML suffix holding content the
\* YAML parser rejects raised the YAML error.
C16_Witness ==
    /\ tool = "load_config"
    /\ outcome.done
    /\ call.data # None
    /\ ConfigPath.yaml
    /\ call.path # Lower(call.path)
    /\ ~ConfigContent.yaml.ok
    /\ outcome.exc = "YAMLError"

\* C18: when resolve_path(name) obtained its result from the fallback search,
\* the cache maps name to the path returned (paths are relative to the root),
\* whatever entry it held for name before.
C18_SearchResultCached ==
    (/\ last.name # None
     /\ ~last.cached
     /\ last.exc = NoExc
     /\ last.ret # None)
    => (/\ last.name \in DOMAIN INDEX
        /\ INDEX[last.name] = last.ret
        /\ Basename(last.ret) = last.name)

\* C18 witness: the cache held A for the name, A no longer exists, the search
\* found B and the cache now holds B.
C18_Witness ==
    /\ last.name # None
    /\ ~last.cached
    /\ last.ret \in files
    /\ hist.stage = "healed"
    /\ hist.name = last.name
    /\ hist.a \notin files
    /\ hist.a # last.ret
    /\ INDEX[last.name] = last.ret

\* The heading line most recently written before line i of body b, 0 when none.
HeadingBefore(b, i) ==
    LET hs == {j \in 1..(i - 1) : BodyLines[b[j]].kind = "heading"} IN
    IF hs = {} THEN 0 ELSE CHOOSE j \in hs : \A k \in hs : k =< j

\* TRUE iff line i of b is not a heading and its most recent heading opens section sec.
Under(b, i, sec) ==
    /\ BodyLines[b[i]].kind # "heading"
    /\ HeadingBefore(b, i) # 0
    /\ BodyLines[b[HeadingBefore(b, i)]].section = sec

\* The last heading of b that opens section sec, 0 when none.
LastHeading(b, sec) ==
    LET hs == {j \in 1..Len(b) : BodyLines[b[j]].kind = "heading" /\ BodyLines[b[j]].section = sec}
    IN  IF hs = {} THEN 0 ELSE CHOOSE j \in hs : \A k \in hs : k =< j

\* TRUE iff line i of b follows the last heading of section sec, before any other heading.
UnderLast(b, i, sec) == Under(b, i, sec) /\ HeadingBefore(b, i) = LastHeading(b, sec)

\* The lines of b at the positions in keep, in order.
RECURSIVE LinesAt(_, _, _)
LinesAt(b, keep, i) ==
    IF i > Len(b) THEN <<>>
    ELSE (IF i \in keep THEN <<BodyLines[b[i]]>> ELSE <<>>) \o LinesAt(b, keep, i + 1)

\* The raw text of each line / the job record of each line
CharsOf(ls) == [k \in 1..Len(ls) |-> ls[k].chars]
JobsOf(ls) == [k \in 1..Len(ls) |-> ls[k].job]

\* C19 as stated: tests are the non-blank lines whose most recent heading is
\* "### Failing tests", jobs one record per job line whose most recent
\* heading is "### Failed jobs"; nothing else contributes.
C19_SectionsByMostRecentHeading ==
    parsed.done =>
        /\ parsed.out.value.tests =
              CharsOf(LinesAt(body, {i \in 1..Len(body) :
                         Under(body, i, "tests") /\ BodyLines[body[i]].kind # "blank"}, 1))
        /\ parsed.out.value.jobs =
              JobsOf(LinesAt(body, {i \in 1..Len(body) :
                         Under(body, i, "jobs") /\ BodyLines[body[i]].kind = "job"}, 1))

\* C19 amended: tests are the non-blank lines between the last
\* "### Failing tests" heading and the next heading or the end, jobs one record
\* per job line between the last "### Failed jobs" heading and the next
\* heading or the end; lines before the first heading, under another heading
\* or under an earlier occurrence of the same heading contribute nothing, and
\* a missing section yields an empty list.
C19_SectionsByLastOccurrence ==
    parsed.done =>
        /\ parsed.out.value.tests =
              CharsOf(LinesAt(body, {i \in 1..Len(body) :
                         UnderLast(body, i, "tests") /\ BodyLines[body[i]].kind # "blank"}, 1))
        /\ parsed.out.value.jobs =
              JobsOf(LinesAt(body, {i \in 1..Len(body) :
                         UnderLast(body, i, "jobs") /\ BodyLines[body[i]].kind = "job"}, 1))

\* C19 witness: a parsed body with a blank and a written line under
\* "### Failing tests"; tests holds the written line alone.
C19_Witness ==
    /\ parsed.done
    /\ Len(body) = 3
    /\ Under(body, 2, "tests") /\ Under(body, 3, "tests")
    /\ BodyLines[body[2]].kind = "blank"
    /\ BodyLines[body[3]].kind = "job"
    /\ parsed.out.value.tests = <<BodyLines[body[3]].chars>>
    /\ parsed.out.value.jobs = <<>>

\* C28: in every record parse_issue_body returns, run_url, commit and branch
\* are all None or all non-empty strings.
C28_MetadataAllOrNone ==
    parsed.done =>
        LET v == parsed.out.value IN
        \/ v.run_url = None /\ v.commit = None /\ v.branch = None
        \/ /\ v.run_url # None /\ v.commit # None /\ v.branch # None
           /\ v.run_url # <<>> /\ v.commit # <<>> /\ v.branch # <<>>

\* C28 witness: a body whose first line has the link and the commit of the
\* producer format but no branch name was parsed, and all three are None.
C28_Witness ==
    /\ parsed.done
    /\ body # <<>>
    /\ body[1] = Len(BodyLines)
    /\ parsed.out.value.run_url = None
    /\ parsed.out.value.commit = None
    /\ parsed.out.value.branch = None

\* TRUE iff the heading of section sec occurs more than once in b.
Repeated(b, sec) ==
    Cardinality({j \in 1..Len(b) : BodyLines[b[j]].kind = "heading"
                                  /\ BodyLines[b[j]].section = sec}) > 1

\* The lines written under an occurrence of the heading of sec other than its last.
UnderEarlier(b, sec) == {i \in 1..Len(b) : Under(b, i, sec) /\ ~UnderLast(b, i, sec)}

\* C30: when "### Failing tests" (or "### Failed jobs") occurs more than
\* once, the result has one entry per non-blank line (per job line) written
\* under the last occurrence, so what was written under an earlier
\* occurrence is not in it.
C30_DuplicateHeadingKeepsLast ==
    parsed.done =>
        /\ Repeated(body, "tests") =>
              /\ Len(parsed.out.value.tests) =
                    Cardinality({i \in 1..Len(body) : UnderLast(body, i, "tests")
                                                     /\ BodyLines[body[i]].kind # "blank"})
              /\ \A i \in UnderEarlier(body, "tests") :
                    (\A j \in 1..Len(body) : UnderLast(body, j, "tests") => body[j] # body[i])
                    => \A k \in 1..Len(parsed.out.value.tests) :
                          parsed.out.value.tests[k] # BodyLines[body[i]].chars
        /\ Repeated(body, "jobs") =>
              Len(parsed.out.value.jobs) =
                  Cardinality({i \in 1..Len(body) : UnderLast(body, i, "jobs")
                                                   /\ BodyLines[body[i]].kind = "job"})

\* C30 witness: a test line was written between two "### Failing tests"
\* headings and the parsed tests are empty.
C30_Witness ==
    /\ parsed.done
    /\ Repeated(body, "tests")
    /\ \E i \in UnderEarlier(body, "tests") : BodyLines[body[i]].kind = "test"
    /\ parsed.out.value.tests = <<>>

\* TRUE iff the variable of the environment is set to a non-empty value.
IsSet(v) == v # None /\ v # <<>>

\* The elements of a sequence.
Range(s) == {s[k] : k \in 1..Len(s)}

\* The OS name of a run: the directory of the result file without the
\* reporter's prefix.
OsName ==
    IF startswith(argv.path[1], results_prefix(tool))
    THEN SubSeq(argv.path[1], Len(results_prefix(tool)) + 1, Len(argv.path[1]))
    ELSE argv.path[1]

\* C23: the body of every issue the pytest and pester reporters file ends
\* with the line "OS: <name>", has a line "Run: <RUN_URL>" iff RUN_URL is set
\* non-empty and a line "Commit ... on branch ..." iff COMMIT_SHA is set
\* non-empty, whatever BRANCH_NAME is; a non-empty failure message comes
\* first, followed by a blank line and then the context.
C23_IssueBodyContext ==
    tool \in {"pytest_failures", "pester_failures"} =>
        \A k \in 1..Len(run.issues) :
            LET text_body == run.issues[k].body
                lines == Joined(text_body)
                filed == CHOOSE id \in Range(Failing(tool)) :
                             CasesOf(tool)[id].title = run.issues[k].title
                message == CasesOf(tool)[filed].message
                context == IF message = <<>> THEN text_body
                           ELSE SubSeq(text_body, Len(message) + 3, Len(text_body))
            IN  /\ Last(lines) = <<"O", "S", ":", " ">> \o OsName
                /\ (\E l \in Range(lines) : startswith(l, <<"R", "u", "n", ":", " ">>))
                      <=> IsSet(environ.RUN_URL)
                /\ IsSet(environ.RUN_URL) =>
                      (<<"R", "u", "n", ":", " ">> \o environ.RUN_URL) \in Range(lines)
                /\ (\E l \in Range(lines) :
                        startswith(l, <<"C", "o", "m", "m", "i", "t", " ", Backtick>> \o environ.COMMIT_SHA
                                      \o <<Backtick, " ", "o", "n", " ", "b", "r", "a", "n", "c", "h", " ">>))
                      <=> IsSet(environ.COMMIT_SHA)
                /\ message # <<>> => startswith(text_body, message \o <<"\n", "\n">>)
                /\ Len(Joined(context)) =
                      1 + (IF IsSet(environ.RUN_URL) THEN 1 ELSE 0)
                        + (IF IsSet(environ.COMMIT_SHA) THEN 1 ELSE 0)

\* C23 witness: with COMMIT_SHA set, BRANCH_NAME unset and RUN_URL empty, an
\* issue with a failure message was filed; its body has the message, a blank
\* line, the commit line and the OS line.
C23_Witness ==
    /\ tool = "pester_failures"
    /\ run.pc = "done"
    /\ run.issues # <<>>
    /\ environ.RUN_URL = <<>>
    /\ IsSet(environ.COMMIT_SHA)
    /\ environ.BRANCH_NAME = None
    /\ \A id \in Range(Failing(tool)) : PesterCases[id].message # <<>>
    /\ Len(Joined(run.issues[1].body)) = 4

\* p is a prefix of s
IsPrefix(p, s) == Len(p) =< Len(s) /\ SubSeq(s, 1, Len(p)) = p

\* The create_issue calls of the batch, as the loop was entered with them.
Batch == run.issues \o run.pending

C13_BatchAbort ==
    /\ [](tool \in Reporters =>
            /\ run.issues # run.attempts =>
                  /\ run.pc = "raised"
                  /\ run.exc \in create_issue_raises(environ)
                  /\ run.issues = SubSeq(run.attempts, 1, Len(run.attempts) - 1)
                  /\ run.pending # <<>> /\ Last(run.attempts) = Head(run.pending)
            /\ run.pc = "raised" /\ run.attempts # <<>> =>
                  run.issues # run.attempts)
    /\ [][(tool \in Reporters /\ run.pc = "raised") => run' = run]_vars

\* The second of three create_issue calls failed: one issue is filed, one
\* is never attempted.
C13_Witness ==
    /\ tool = "lint_failures"
    /\ run.pc = "raised"
    /\ Len(run.issues) = 1
    /\ Len(run.attempts) = 2
    /\ Len(run.pending) = 2

\* The distinct findings read, in the order they are first seen.
RECURSIVE FirstSeenOrder(_)
FirstSeenOrder(lines) ==
    IF lines = {} THEN <<>>
    ELSE LET first == CHOOSE l \in lines :
                          \A m \in lines \ {l} : ReadBefore(FirstSeen(l), FirstSeen(m))
         IN  <<first>> \o FirstSeenOrder(lines \ {first})

\* C20: report_warnings files exactly one issue, titled "Lint warning or
\* error", for each distinct retained line, in summary order, the line being
\* the body; no issue when no line is retained.
C20_OneIssuePerLine ==
    (tool = "lint_failures" /\ ~argv.summary /\ run.pc = "done") =>
        LET lines == FirstSeenOrder({LogLines[logs[k][2]].cleaned : k \in LintFindings}) IN
        /\ Len(run.issues) = Len(lines)
        /\ \A k \in 1..Len(run.issues) :
              /\ run.issues[k].title = <<"L", "i", "n", "t", " ", "w", "a", "r", "n", "i", "n",
                                         "g", " ", "o", "r", " ", "e", "r", "r", "o", "r">>
              /\ run.issues[k].body = lines[k]

Init ==
    \/ InitPathIndex \/ InitIssueParser \/ InitCleanup \/ InitReporters
    \/ InitCreateIssue \/ InitCli \/ InitLoadConfig \/ InitManifest
Next ==
    \/ NextPathIndex \/ NextIssueParser \/ NextCleanup \/ NextReporters
    \/ NextCreateIssue \/ NextCli \/ NextLoadConfig \/ NextManifest
Spec == Init /\ [][Next]_vars
====
